---------------------------- MODULE Spec2Model ----------------------------
(***************************************************************************)
(* A model of the twin-cities repository:                                  *)
(*   - align (src/src/app.py), the sorted merge of the Wikidata and the    *)
(*     Wikipedia record lists, as a step machine over its two cursors;     *)
(*   - TwinCitiesGraph (src/grapher/twin_cities_graph.py), the RDF store   *)
(*     with its two in-memory dictionaries and its lookup queries;         *)
(*   - Scraper (src/scraper/scrape.py): the reference parser, the page     *)
(*     scraper in its two modes as a step machine over the nodes of a      *)
(*     page, and run(), the crawl over the two queues of listing pages;    *)
(*   - Publisher.update (src/src/wikidata/publish.py), the write of one    *)
(*     twin-city statement to the remote knowledge base.                   *)
(***************************************************************************)
EXTENDS Integers, Sequences, FiniteSets, TLC

VARIABLES
    prop,            \* align: the key field, "id" or "url"
    data_wikidata,   \* align: the left input list
    data_wikipedia,  \* align: the right input list
    i,               \* align: cursor into data_wikidata (0-based)
    j,               \* align: cursor into data_wikipedia (0-based)
    data,            \* align: the output list built so far
    alignPc,         \* align: "run" inside the function, "done" after return
    graph,           \* TwinCitiesGraph.graph: the triples, in insertion order
    references,      \* TwinCitiesGraph.references: identity -> Reference node
    city_pairs,      \* TwinCitiesGraph.city_pairs: (city, twin) -> CityPair node
    nextBNode,       \* the number the next BNode() gets
    file,            \* the file written by save(), NoFile before the first save
    calls,           \* add_cities calls made so far
    loads,           \* load calls made so far
    added,           \* the arguments of the add_cities calls on this store object, in order
    contained,       \* the add_cities arguments whose result the graph holds (added or loaded)
    fileContained,   \* the add_cities arguments whose result the file holds
    continents_to_scrape, \* Scraper.continents_to_scrape: set of (title, shown text)
    countries_to_scrape,  \* Scraper.countries_to_scrape: set of (title, shown text)
    self_cities,     \* Scraper.cities: the cities collected by run(), in order
    wikitext,        \* page scrape: the top-level nodes of the page being scraped
    mode,            \* page scrape: "country" or "continent"
    frame,           \* page scrape: the local variables of the running scrape call
    line_no,         \* page scrape: how many filtered nodes the loop has consumed
    scrapePc,        \* page scrape: "idle", "loop", "returned" or "raised"
    wiki,            \* run: the remote wiki, page title -> page nodes
    runPc,           \* run: "start", "continents", "countries", "done" or "raised"
    fetched,         \* run: the (queue, title) of the pages fetched so far, in order
    pubData,         \* Publisher.update: the data argument
    two_sided,       \* Publisher.update: the two_sided argument
    remote,          \* Publisher: what the remote knowledge base answers
    writes,          \* Publisher: the item ids try_write was called on, in order
    pubResult,       \* Publisher.update: "none" until the call ends, then how it ended
    pubCall,         \* Publisher.update: where the call stands, and its locals
    raw,             \* dashboard: the rows q.get_wikidata_twin_data returns
    twins_details,   \* dashboard: the global twins_details, the aligned entries
    twins_names,     \* dashboard: the global twins_names, the rows of the table
    hide_switch,     \* dashboard: the "on" value of the hide switch
    selected_rows,   \* dashboard: selected_rows of the table (0-based row numbers)
    shown,           \* dashboard: the entry the details pane shows, NoneObj for none
    submitted,       \* dashboard: the entry query built its request from, NoneObj for none
    dashPc           \* dashboard: "idle", "start", "loaded" or "raised"

alignVars == <<prop, data_wikidata, data_wikipedia, i, j, data, alignPc>>

storeVars == <<graph, references, city_pairs, nextBNode>>

graphVars == <<storeVars, file, calls, loads, added, contained, fileContained>>

scraperVars == <<continents_to_scrape, countries_to_scrape, self_cities, wikitext, mode,
                 frame, line_no, scrapePc, wiki, runPc, fetched>>

publisherVars == <<pubData, two_sided, remote, writes, pubResult, pubCall>>

dashVars == <<raw, twins_details, twins_names, hide_switch, selected_rows, shown, submitted,
              dashPc>>

vars == <<alignVars, graphVars, scraperVars, publisherVars, dashVars>>

(***************************************************************************)
(* Bounds.                                                                 *)
(***************************************************************************)
\* longest input list given to align
MaxLen == 3
\* number of distinct key values; the integers 1..MaxKey stand for strings
\* in their lexicographic order
MaxKey == 3

Keys == 1 .. MaxKey

RECURSIVE SeqsUpTo(_, _)
SeqsUpTo(S, n) ==
    IF n = 0 THEN {<<>>}
    ELSE LET shorter == SeqsUpTo(S, n - 1)
         IN  shorter \cup {Append(s, x) : s \in {t \in shorter : Len(t) = n - 1}, x \in S}

(***************************************************************************)
(* The store right after TwinCitiesGraph() (twin_cities_graph.py:13-23)    *)
(***************************************************************************)
NoFile == <<"no file">>

EmptyDict == [x \in {} |-> x]

InitStore ==
    /\ graph = <<>>
    /\ references = EmptyDict
    /\ city_pairs = EmptyDict
    /\ nextBNode = 1
    /\ file = NoFile
    /\ calls = 0
    /\ loads = 0
    /\ added = <<>>
    /\ contained = <<>>
    /\ fileContained = <<>>

\* the scraper variables while another component is exercised
ScraperIdle ==
    /\ continents_to_scrape = {}
    /\ countries_to_scrape = {}
    /\ self_cities = <<>>
    /\ wikitext = <<>>
    /\ mode = "country"
    /\ frame = <<>>
    /\ line_no = 0
    /\ scrapePc = "idle"
    /\ wiki = <<>>
    /\ runPc = "done"
    /\ fetched = <<>>

\* the publisher variables while another component is exercised
PublisherIdle ==
    /\ pubData = <<>>
    /\ two_sided = FALSE
    /\ remote = <<>>
    /\ writes = <<>>
    /\ pubResult = "none"
    /\ pubCall = [pc |-> "idle"]

\* None where an object (a Reference, a City, a twin, an entry) is expected
NoneObj == [is_none |-> TRUE]

\* the dashboard variables while another component is exercised
DashIdle ==
    /\ raw = <<>>
    /\ twins_details = <<>>
    /\ twins_names = <<>>
    /\ hide_switch = FALSE
    /\ selected_rows = <<>>
    /\ shown = NoneObj
    /\ submitted = NoneObj
    /\ dashPc = "idle"

\* the align variables while another component is exercised
AlignIdle ==
    /\ prop = "id"
    /\ data_wikidata = <<>>
    /\ data_wikipedia = <<>>
    /\ i = 0
    /\ j = 0
    /\ data = <<>>
    /\ alignPc = "done"

(***************************************************************************)
(* align, src/src/app.py:121-149                                           *)
(***************************************************************************)
\* A record of an input list: the key field holds the key, the other field
\* tells the records of one list apart (as name and url do in the program).
MkRecord(p, k, n) ==
    IF p = "id" THEN [id |-> k, url |-> n] ELSE [id |-> n, url |-> k]

MkList(p, ks) == [n \in 1 .. Len(ks) |-> MkRecord(p, ks[n], n)]

InitAlign ==
    /\ prop \in {"id", "url"}
    /\ \E kl \in SeqsUpTo(Keys, MaxLen), kr \in SeqsUpTo(Keys, MaxLen) :
          /\ data_wikidata = MkList(prop, kl)
          /\ data_wikipedia = MkList(prop, kr)
    /\ i = 0
    /\ j = 0
    /\ data = <<>>
    /\ alignPc = "run"
    /\ InitStore
    /\ ScraperIdle
    /\ PublisherIdle
    /\ DashIdle

\* the condition of the first while loop (line 127)
InMerge == i < Len(data_wikidata) /\ j < Len(data_wikipedia)

\* lines 128-131: the keys differ and the left one is smaller
AlignWikidataOnly ==
    /\ alignPc = "run"
    /\ InMerge
    /\ data_wikidata[i + 1][prop] # data_wikipedia[j + 1][prop]
    /\ data_wikidata[i + 1][prop] < data_wikipedia[j + 1][prop]
    /\ data' = Append(data, [wikidata |-> data_wikidata[i + 1]])
    /\ i' = i + 1
    /\ UNCHANGED <<graphVars, scraperVars, publisherVars, dashVars, prop, data_wikidata, data_wikipedia, j, alignPc>>

\* lines 128, 132-134: the keys differ and the left one is greater
AlignWikipediaOnly ==
    /\ alignPc = "run"
    /\ InMerge
    /\ data_wikidata[i + 1][prop] # data_wikipedia[j + 1][prop]
    /\ ~ (data_wikidata[i + 1][prop] < data_wikipedia[j + 1][prop])
    /\ data_wikidata[i + 1][prop] > data_wikipedia[j + 1][prop]
    /\ data' = Append(data, [wikipedia |-> data_wikipedia[j + 1]])
    /\ j' = j + 1
    /\ UNCHANGED <<graphVars, scraperVars, publisherVars, dashVars, prop, data_wikidata, data_wikipedia, i, alignPc>>

\* lines 135-138: equal keys, one entry with both sides, both cursors move
\* (mutant) the matched entry loses its right record
AlignBothDropsWikipedia ==
    /\ alignPc = "run"
    /\ InMerge
    /\ data_wikidata[i + 1][prop] = data_wikipedia[j + 1][prop]
    /\ data' = Append(data, [wikidata |-> data_wikidata[i + 1]])
    /\ i' = i + 1
    /\ j' = j + 1
    /\ UNCHANGED <<graphVars, scraperVars, publisherVars, dashVars, prop, data_wikidata, data_wikipedia, alignPc>>

\* (mutant) the right cursor does not move after a match
AlignBothKeepsCursor ==
    /\ alignPc = "run"
    /\ InMerge
    /\ data_wikidata[i + 1][prop] = data_wikipedia[j + 1][prop]
    /\ data' = Append(data, [wikidata |-> data_wikidata[i + 1],
                             wikipedia |-> data_wikipedia[j + 1]])
    /\ i' = i + 1
    /\ UNCHANGED <<graphVars, scraperVars, publisherVars, dashVars, prop, data_wikidata, data_wikipedia, j, alignPc>>

\* (mutant) equal keys give two one-sided entries
AlignBothSplits ==
    /\ alignPc = "run"
    /\ InMerge
    /\ data_wikidata[i + 1][prop] = data_wikipedia[j + 1][prop]
    /\ data' = data \o <<[wikidata |-> data_wikidata[i + 1]],
                         [wikipedia |-> data_wikipedia[j + 1]]>>
    /\ i' = i + 1
    /\ j' = j + 1
    /\ UNCHANGED <<graphVars, scraperVars, publisherVars, dashVars, prop, data_wikidata, data_wikipedia, alignPc>>

AlignBoth ==
    /\ alignPc = "run"
    /\ InMerge
    /\ data_wikidata[i + 1][prop] = data_wikipedia[j + 1][prop]
    /\ data' = Append(data, [wikidata |-> data_wikidata[i + 1],
                             wikipedia |-> data_wikipedia[j + 1]])
    /\ i' = i + 1
    /\ j' = j + 1
    /\ UNCHANGED <<graphVars, scraperVars, publisherVars, dashVars, prop, data_wikidata, data_wikipedia, alignPc>>

\* lines 139-145: the first loop is over, left records remain
\* (mutant) the left-over records are put in front of the result
AlignRestWikidataPrepends ==
    /\ alignPc = "run"
    /\ ~ InMerge
    /\ i < Len(data_wikidata)
    /\ data' = <<[wikidata |-> data_wikidata[i + 1]]>> \o data
    /\ i' = i + 1
    /\ UNCHANGED <<graphVars, scraperVars, publisherVars, dashVars, prop, data_wikidata, data_wikipedia, j, alignPc>>

AlignRestWikidata ==
    /\ alignPc = "run"
    /\ ~ InMerge
    /\ i < Len(data_wikidata)
    /\ data' = Append(data, [wikidata |-> data_wikidata[i + 1]])
    /\ i' = i + 1
    /\ UNCHANGED <<graphVars, scraperVars, publisherVars, dashVars, prop, data_wikidata, data_wikipedia, j, alignPc>>

\* lines 146-148: the first two loops are over, right records remain
AlignRestWikipedia ==
    /\ alignPc = "run"
    /\ ~ InMerge
    /\ ~ (i < Len(data_wikidata))
    /\ j < Len(data_wikipedia)
    /\ data' = Append(data, [wikipedia |-> data_wikipedia[j + 1]])
    /\ j' = j + 1
    /\ UNCHANGED <<graphVars, scraperVars, publisherVars, dashVars, prop, data_wikidata, data_wikipedia, i, alignPc>>

\* line 149: return data
AlignReturn ==
    /\ alignPc = "run"
    /\ ~ InMerge
    /\ ~ (i < Len(data_wikidata))
    /\ ~ (j < Len(data_wikipedia))
    /\ alignPc' = "done"
    /\ UNCHANGED <<graphVars, scraperVars, publisherVars, dashVars, prop, data_wikidata, data_wikipedia, i, j, data>>

NextAlign ==
    \/ AlignWikidataOnly
    \/ AlignWikipediaOnly
    \/ AlignBoth
    \/ AlignRestWikidata
    \/ AlignRestWikipedia
    \/ AlignReturn

SpecAlign == InitAlign /\ [][NextAlign]_vars

(***************************************************************************)
(* Vocabulary of the align claims.                                         *)
(***************************************************************************)
KeysOf(list) == {list[n][prop] : n \in 1 .. Len(list)}

SortedAsc(list) ==
    \A m, n \in 1 .. Len(list) : m < n => list[m][prop] <= list[n][prop]

StrictlyAsc(list) ==
    \A m, n \in 1 .. Len(list) : m < n => list[m][prop] < list[n][prop]

HasWikidata(e) == "wikidata" \in DOMAIN e
HasWikipedia(e) == "wikipedia" \in DOMAIN e

\* the left records of the entries, in output order
WikidataSide(entries) ==
    LET kept == SelectSeq(entries, HasWikidata)
    IN  [n \in 1 .. Len(kept) |-> kept[n].wikidata]

\* the right records of the entries, in output order
WikipediaSide(entries) ==
    LET kept == SelectSeq(entries, HasWikipedia)
    IN  [n \in 1 .. Len(kept) |-> kept[n].wikipedia]

EntryKey(e) == IF HasWikidata(e) THEN e.wikidata[prop] ELSE e.wikipedia[prop]


(***************************************************************************)
(* Claims about align.                                                     *)
(***************************************************************************)
AlignDone == alignPc = "done"

AllKeys == KeysOf(data_wikidata) \cup KeysOf(data_wikipedia)

\* C1 (as stated): for inputs sorted ascending by the key, align returns
\* exactly as many entries as there are distinct keys in the two inputs.
\* Refuted by a sorted input that repeats a key.
C1_LengthIsDistinctKeys_Sorted ==
    (AlignDone /\ SortedAsc(data_wikidata) /\ SortedAsc(data_wikipedia))
        => Len(data) = Cardinality(AllKeys)

\* C1 (amended): for inputs sorted strictly ascending by the key (no key
\* repeated inside one list), align returns exactly as many entries as there
\* are distinct keys in the two inputs.
C1_LengthIsDistinctKeys_Strict ==
    (AlignDone /\ StrictlyAsc(data_wikidata) /\ StrictlyAsc(data_wikipedia))
        => Len(data) = Cardinality(AllKeys)

\* C1 witness: align has returned on strictly sorted inputs that share one
\* key and each hold a key of their own.
C1_Witness ==
    /\ AlignDone
    /\ StrictlyAsc(data_wikidata) /\ StrictlyAsc(data_wikipedia)
    /\ KeysOf(data_wikidata) \cap KeysOf(data_wikipedia) # {}
    /\ KeysOf(data_wikidata) \ KeysOf(data_wikipedia) # {}
    /\ KeysOf(data_wikipedia) \ KeysOf(data_wikidata) # {}
    /\ Len(data) = 3

\* how many entries carry record r on the given side
TimesEmitted(side, r) ==
    Cardinality({n \in 1 .. Len(data) : side \in DOMAIN data[n] /\ data[n][side] = r})

\* C2: whatever the input lists (sorted or not), every record of the left
\* list and every record of the right list is carried by exactly one entry
\* of the result of align.
C2_EveryRecordExactlyOnce ==
    AlignDone =>
        /\ \A n \in 1 .. Len(data_wikidata) : TimesEmitted("wikidata", data_wikidata[n]) = 1
        /\ \A n \in 1 .. Len(data_wikipedia) : TimesEmitted("wikipedia", data_wikipedia[n]) = 1

\* C2 witness: align has returned on unsorted inputs after having emitted a
\* matched entry and having drained the rest of the left list.
C2_Witness ==
    /\ AlignDone
    /\ ~ SortedAsc(data_wikidata)
    /\ Len(data_wikipedia) >= 1
    /\ \E n \in 1 .. Len(data) : HasWikidata(data[n]) /\ HasWikipedia(data[n])
    /\ HasWikidata(data[Len(data)]) /\ ~ HasWikipedia(data[Len(data)])

\* what C3 says of one entry
MatchedIffShared(e) ==
    /\ (HasWikidata(e) /\ HasWikipedia(e))
          <=> EntryKey(e) \in KeysOf(data_wikidata) \cap KeysOf(data_wikipedia)
    /\ (HasWikidata(e) /\ HasWikipedia(e)) => e.wikidata[prop] = e.wikipedia[prop]
    /\ HasWikidata(e) \/ HasWikipedia(e)

\* C3 (as stated): for sorted inputs an entry carries both sides iff its key
\* occurs in both inputs, the two records then have equal keys, and every
\* other entry carries one side.  Refuted by a sorted input that repeats a
\* key the other list holds too.
C3_MatchedIffInBoth_Sorted ==
    (AlignDone /\ SortedAsc(data_wikidata) /\ SortedAsc(data_wikipedia))
        => \A n \in 1 .. Len(data) : MatchedIffShared(data[n])

\* C3 (amended): the same for inputs sorted strictly ascending by the key.
C3_MatchedIffInBoth_Strict ==
    (AlignDone /\ StrictlyAsc(data_wikidata) /\ StrictlyAsc(data_wikipedia))
        => \A n \in 1 .. Len(data) : MatchedIffShared(data[n])

\* C3 witness: align has returned on strictly sorted inputs with a matched
\* entry, a left-only entry and a right-only entry.
C3_Witness ==
    /\ AlignDone
    /\ StrictlyAsc(data_wikidata) /\ StrictlyAsc(data_wikipedia)
    /\ \E n \in 1 .. Len(data) : HasWikidata(data[n]) /\ HasWikipedia(data[n])
    /\ \E n \in 1 .. Len(data) : HasWikidata(data[n]) /\ ~ HasWikipedia(data[n])
    /\ \E n \in 1 .. Len(data) : ~ HasWikidata(data[n]) /\ HasWikipedia(data[n])

\* C4: at every step the left records of the entries emitted so far are the
\* first i records of the left list in their order, and the right records
\* are the first j records of the right list; so at return the two sides of
\* the result read exactly the two inputs, and the records drained after a
\* cursor is exhausted come one per entry in their original order.
C4_OrderPreserved ==
    /\ WikidataSide(data) = SubSeq(data_wikidata, 1, i)
    /\ WikipediaSide(data) = SubSeq(data_wikipedia, 1, j)
    /\ AlignDone => /\ WikidataSide(data) = data_wikidata
                    /\ WikipediaSide(data) = data_wikipedia

\* C4 witness: align has returned after draining at least two left-over
\* records of the left list behind a right list that ran out first.
C4_Witness ==
    /\ AlignDone
    /\ Len(data_wikipedia) >= 1
    /\ Len(data) >= 3
    /\ \A n \in Len(data) - 1 .. Len(data) : HasWikidata(data[n]) /\ ~ HasWikipedia(data[n])


(***************************************************************************)
(* TwinCitiesGraph, src/grapher/twin_cities_graph.py                       *)
(*                                                                         *)
(* A node is a pair <<kind, value>>: a URIRef, a Literal or a BNode.  The  *)
(* graph is the sequence of its triples <<s, p, o>> in insertion order,    *)
(* which is the order rdflib's memory store iterates in.                   *)
(***************************************************************************)
\* Python's None as a field value
None == "<None>"

\* Python's None where a node is expected
NoNode == <<"none", "None">>

URIRef(u) == <<"uri", u>>

\* Literal(v): the lexical form is str(v), so Literal(None) is Literal("None")
Literal(v) == <<"lit", IF v = None THEN "None" ELSE v>>

BNode(n) == <<"bnode", n>>

IsBNode(node) == node[1] = "bnode"

\* value.toPython() if value is not None else None
ToPython(node) == IF node = NoNode THEN None ELSE node[2]

RDF_type == "rdf:type"
RDFS_label == "rdfs:label"
TC_City == URIRef("twin-cities:City")
TC_Reference == URIRef("twin-cities:Reference")
TC_CityPair == URIRef("twin-cities:CityPair")

\* coalesce(*arg), lines 8-9: the first argument that is not None
RECURSIVE coalesce(_)
coalesce(arg) ==
    IF arg = <<>> THEN None
    ELSE IF Head(arg) # None THEN Head(arg)
    ELSE coalesce(Tail(arg))

\* (subject, predicate, object_) in self.graph
InGraph(g, t) == \E n \in 1 .. Len(g) : g[n] = t

\* graph.objects(s, p), in insertion order
Objects(g, s, p) ==
    LET hits == SelectSeq(g, LAMBDA t : t[1] = s /\ t[2] = p)
    IN  [n \in 1 .. Len(hits) |-> hits[n][3]]

\* graph.subjects(p, o), in insertion order
Subjects(g, p, o) ==
    LET hits == SelectSeq(g, LAMBDA t : t[2] = p /\ t[3] = o)
    IN  [n \in 1 .. Len(hits) |-> hits[n][1]]

\* graph.value(s, p): the first object, None when there is none
Value(g, s, p) ==
    LET objs == Objects(g, s, p)
    IN  IF objs = <<>> THEN NoNode ELSE objs[1]

(***************************************************************************)
(* The store as a value: [graph, references, city_pairs, next].            *)
(***************************************************************************)
\* (mutant) _add_triple without the membership test of line 90
AddTripleAlways(present, subject, predicate, object_) ==
    ~ (subject = NoNode \/ object_ = NoNode \/ object_ = Literal("None"))

\* _add_triple, lines 87-91: whether the call appends the triple, present
\* telling whether the triple is in the graph when the call is made
AddTriple(present, subject, predicate, object_) ==
    IF subject = NoNode \/ object_ = NoNode \/ object_ = Literal("None")
    THEN FALSE
    ELSE ~ present

\* _add_triple called on each triple of ts in turn, starting from graph g
AddTriples(g, ts) ==
    LET Present(n) == InGraph(g, ts[n]) \/ \E m \in 1 .. n - 1 : ts[m] = ts[n]
        kept == SelectSeq([n \in 1 .. Len(ts) |-> n],
                          LAMBDA n : AddTriple(Present(n), ts[n][1], ts[n][2], ts[n][3]))
    IN  g \o [k \in 1 .. Len(kept) |-> ts[kept[k]]]

\* _add_city, lines 37-44
AddCity(st, url0, name, country, wiki_text, source_page, source_type) ==
    LET url == URIRef(url0)
    IN  [st EXCEPT !.graph = AddTriples(@,
            <<<<url, RDF_type, TC_City>>,
              <<url, RDFS_label, Literal(name)>>,
              <<url, "twin-cities:country", Literal(country)>>,
              <<url, "twin-cities:wikiText", Literal(wiki_text)>>,
              <<url, "twin-cities:sourcePage", Literal(source_page)>>,
              <<url, "twin-cities:sourceType", Literal(source_type)>>>>)]

\* (mutant) _add_twin that links one direction only
AddTwinOneWay(st, city_url0, twin) ==
    LET city_url == URIRef(city_url0)
        s1 == AddCity(st, twin.wiki_url, twin.second_city, twin.second_country,
                      twin.wiki_text, None, None)
        twin_url == URIRef(twin.wiki_url)
    IN  [s1 EXCEPT !.graph = AddTriples(@, <<<<city_url, "twin-cities:twin", twin_url>>>>)]

\* _add_twin, lines 46-51
AddTwin(st, city_url0, twin) ==
    LET city_url == URIRef(city_url0)
        s1 == AddCity(st, twin.wiki_url, twin.second_city, twin.second_country,
                      twin.wiki_text, None, None)
        twin_url == URIRef(twin.wiki_url)
    IN  [s1 EXCEPT !.graph = AddTriples(@,
            <<<<city_url, "twin-cities:twin", twin_url>>,
              <<twin_url, "twin-cities:twin", city_url>>>>)]

\* line 54: the identity of a reference
RefIdentity(reference) ==
    coalesce(<<reference.url, reference.website, reference.title,
               reference.publisher, "unknown">>)

\* (mutant) lines 56-61 with the dictionary never consulted
RefNodeAlwaysNew(st, reference) ==
    LET ref == BNode(st.next)
    IN  [ref |-> ref, next |-> st.next + 1,
         triples |-> <<<<ref, RDF_type, TC_Reference>>,
                       <<ref, "twin-cities:url", Literal(reference.url)>>>>]

\* lines 56-61: the Reference node of this identity, with the triples that
\* are added when it is a new one
RefNodeFor(st, reference) ==
    LET url == RefIdentity(reference)
    IN  IF url \in DOMAIN st.references
        THEN [ref |-> st.references[url], next |-> st.next, triples |-> <<>>]
        ELSE LET ref == BNode(st.next)
             IN  [ref |-> ref, next |-> st.next + 1,
                  triples |-> <<<<ref, RDF_type, TC_Reference>>,
                                <<ref, "twin-cities:url", Literal(reference.url)>>>>]

\* (mutant) lines 70-78 with only the (city, twin) orientation looked up
CityPairOneOrientation(st, next, city_url, twin_url) ==
    IF <<city_url, twin_url>> \in DOMAIN st.city_pairs
    THEN [city_pair |-> st.city_pairs[<<city_url, twin_url>>], next |-> next, triples |-> <<>>]
    ELSE LET city_pair == BNode(next)
         IN  [city_pair |-> city_pair, next |-> next + 1,
              triples |-> <<<<city_pair, RDF_type, TC_CityPair>>,
                            <<city_pair, "twin-cities:city", city_url>>,
                            <<city_pair, "twin-cities:city", twin_url>>>>]

\* lines 70-78: the CityPair node of this pair, with the triples that are
\* added when neither orientation is known; next numbers the next BNode()
CityPairFor(st, next, city_url, twin_url) ==
    IF <<city_url, twin_url>> \in DOMAIN st.city_pairs
    THEN [city_pair |-> st.city_pairs[<<city_url, twin_url>>], next |-> next, triples |-> <<>>]
    ELSE IF <<twin_url, city_url>> \in DOMAIN st.city_pairs
    THEN [city_pair |-> st.city_pairs[<<twin_url, city_url>>], next |-> next, triples |-> <<>>]
    ELSE LET city_pair == BNode(next)
         IN  [city_pair |-> city_pair, next |-> next + 1,
              triples |-> <<<<city_pair, RDF_type, TC_CityPair>>,
                            <<city_pair, "twin-cities:city", city_url>>,
                            <<city_pair, "twin-cities:city", twin_url>>>>]

\* _add_reference, lines 53-85
AddReference(st, reference, city_url, twin_url) ==
    LET r == RefNodeFor(st, reference)
        ref == r.ref
        c == CityPairFor(st, r.next, city_url, twin_url)
        city_pair == c.city_pair
    IN  [graph |-> AddTriples(st.graph,
            r.triples
            \o <<<<ref, "twin-cities:website", Literal(reference.website)>>,
                 <<ref, RDFS_label, Literal(reference.title)>>,
                 <<ref, "twin-cities:publisher", Literal(reference.publisher)>>,
                 <<ref, "twin-cities:language", Literal(reference.language)>>,
                 <<ref, "twin-cities:accessDate", Literal(reference.access_date)>>,
                 <<ref, "twin-cities:date", Literal(reference.date)>>>>
            \o c.triples
            \o <<<<ref, "twin-cities:city_pair", city_pair>>,
                 <<city_url, "twin-cities:reference", ref>>,
                 <<twin_url, "twin-cities:reference", ref>>>>),
         references |-> (RefIdentity(reference) :> ref) @@ st.references,
         city_pairs |-> (<<city_url, twin_url>> :> city_pair) @@ st.city_pairs,
         next |-> c.next]

\* lines 32-35: one loop over a list of references
RECURSIVE AddReferences(_, _, _, _)
AddReferences(st, refs, city_url, twin_url) ==
    IF refs = <<>> THEN st
    ELSE AddReferences(AddReference(st, Head(refs), city_url, twin_url),
                       Tail(refs), city_url, twin_url)

\* lines 29-35: the loop over the twins of one city
RECURSIVE AddTwins(_, _, _)
AddTwins(st, city, twins) ==
    IF twins = <<>> THEN st
    ELSE LET twin == Head(twins)
             s1 == AddTwin(st, city.wiki_url, twin)
             s2 == AddReferences(s1, city.ref, URIRef(city.wiki_url), URIRef(twin.wiki_url))
             s3 == AddReferences(s2, twin.refs, URIRef(city.wiki_url), URIRef(twin.wiki_url))
         IN  AddTwins(s3, city, Tail(twins))

\* add_cities, lines 25-35
RECURSIVE AddCitiesTo(_, _)
AddCitiesTo(st, cities) ==
    IF cities = <<>> THEN st
    ELSE LET city == Head(cities)
             s1 == AddCity(st, city.wiki_url, city.name, city.country, city.wiki_text,
                           city.source_page, city.source_type)
         IN  AddCitiesTo(AddTwins(s1, city, city.twin_cities), Tail(cities))

(***************************************************************************)
(* The lookup queries.  A query result is [raised, value]: raised is TRUE  *)
(* when the call ends in an exception, and then there is no value.         *)
(***************************************************************************)
Returned(v) == [raised |-> FALSE, value |-> v]
Raised == [raised |-> TRUE, value |-> <<>>]

\* (mutant) get_cities without the test of lines 96-97
get_cities_unfiltered(g) ==
    LET urls == Subjects(g, RDF_type, TC_City)
        CityOf(city_url) ==
            [url |-> ToPython(city_url),
             name |-> ToPython(Value(g, city_url, RDFS_label)),
             country |-> ToPython(Value(g, city_url, "twin-cities:country"))]
    IN  [n \in 1 .. Len(urls) |-> CityOf(urls[n])]

\* get_cities, lines 93-106
get_cities(g) ==
    LET urls == SelectSeq(Subjects(g, RDF_type, TC_City),
                          LAMBDA city_url : Value(g, city_url, "twin-cities:twin") # NoNode)
        CityOf(city_url) ==
            [url |-> ToPython(city_url),
             name |-> ToPython(Value(g, city_url, RDFS_label)),
             country |-> ToPython(Value(g, city_url, "twin-cities:country"))]
    IN  [n \in 1 .. Len(urls) |-> CityOf(urls[n])]

\* get_twins, lines 108-123
get_twins(g, city_url) ==
    LET urls == Objects(g, URIRef(city_url), "twin-cities:twin")
        TwinOf(twin_url) ==
            [url |-> ToPython(twin_url),
             name |-> ToPython(Value(g, twin_url, RDFS_label)),
             country |-> ToPython(Value(g, twin_url, "twin-cities:country")),
             sourcePage |-> ToPython(Value(g, twin_url, "twin-cities:sourcePage")),
             sourceType |-> ToPython(Value(g, twin_url, "twin-cities:sourceType")),
             wikiText |-> ToPython(Value(g, twin_url, "twin-cities:wikiText"))]
    IN  [n \in 1 .. Len(urls) |-> TwinOf(urls[n])]

\* (mutant) _is_reference_relevant that looks at the city alone
IsReferenceRelevantCityOnly(g, ref_url, city_url, twin_url) ==
    LET pairs == Objects(g, ref_url, "twin-cities:city_pair")
    IN  \E n \in 1 .. Len(pairs) :
            LET city_pair_cities == Objects(g, pairs[n], "twin-cities:city")
            IN  \E a \in 1 .. Len(city_pair_cities) : city_pair_cities[a] = city_url

\* _is_reference_relevant, lines 156-162
IsReferenceRelevant(g, ref_url, city_url, twin_url) ==
    LET pairs == Objects(g, ref_url, "twin-cities:city_pair")
    IN  \E n \in 1 .. Len(pairs) :
            LET city_pair_cities == Objects(g, pairs[n], "twin-cities:city")
            IN  /\ \E a \in 1 .. Len(city_pair_cities) : city_pair_cities[a] = city_url
                /\ \E b \in 1 .. Len(city_pair_cities) : city_pair_cities[b] = twin_url

\* lines 139-153: the dictionary built for one reference node; accessDate
\* is the list of strings that " ".join glues together
RefDict(g, ref_url, url) ==
    LET dates == Objects(g, ref_url, "twin-cities:accessDate")
    IN  [name |-> ToPython(Value(g, ref_url, RDFS_label)),
         url |-> ToPython(url),
         website |-> ToPython(Value(g, ref_url, "twin-cities:website")),
         publisher |-> ToPython(Value(g, ref_url, "twin-cities:publisher")),
         language |-> ToPython(Value(g, ref_url, "twin-cities:language")),
         accessDate |-> [n \in 1 .. Len(dates) |-> ToPython(dates[n])],
         date |-> ToPython(Value(g, ref_url, "twin-cities:date"))]

\* lines 130-153: the loop over the candidate nodes, refs being the list
\* built so far; url.toPython() raises AttributeError when url is None
RECURSIVE RefsLoop(_, _, _, _, _)
RefsLoop(g, candidates, city_url, twin_url, refs) ==
    IF candidates = <<>> THEN Returned(refs)
    ELSE LET ref_url == Head(candidates)
             url == Value(g, ref_url, "twin-cities:url")
         IN  IF ~ IsReferenceRelevant(g, ref_url, city_url, twin_url)
             THEN RefsLoop(g, Tail(candidates), city_url, twin_url, refs)
             ELSE IF url = NoNode
             THEN Raised
             ELSE IF \E n \in 1 .. Len(refs) : refs[n].url = ToPython(url)
             THEN RefsLoop(g, Tail(candidates), city_url, twin_url, refs)
             ELSE RefsLoop(g, Tail(candidates), city_url, twin_url,
                           Append(refs, RefDict(g, ref_url, url)))

\* get_references, lines 125-154
get_references(g, city_url0, twin_url0) ==
    LET city_url == URIRef(city_url0)
        twin_url == URIRef(twin_url0)
    IN  RefsLoop(g, Objects(g, city_url, "twin-cities:reference")
                        \o Objects(g, twin_url, "twin-cities:reference"),
                 city_url, twin_url, <<>>)

(***************************************************************************)
(* The inputs of add_cities: City, TwinCitiesAgreement and Reference       *)
(* values (src/scraper/scrape.py:9-41) over three cities and three         *)
(* references.  Ref1 and Ref2 have a url; Ref3 has none, its identity is   *)
(* its title.                                                              *)
(***************************************************************************)
\* add_cities calls in one run
MaxCalls == 2
\* load calls in one run
MaxLoads == 1

CityUrls == {"A", "B", "C"}

CityName == [u \in CityUrls |-> CASE u = "A" -> "Aachen" [] u = "B" -> "Bonn" [] OTHER -> "Celle"]

Ref1 == [url |-> "http://x", website |-> None, title |-> "T", publisher |-> None,
         language |-> None, access_date |-> "2020-01-01", date |-> None]

Ref2 == [url |-> "http://y", website |-> None, title |-> "T", publisher |-> "P",
         language |-> None, access_date |-> None, date |-> None]

Ref3 == [url |-> None, website |-> None, title |-> "U", publisher |-> None,
         language |-> None, access_date |-> None, date |-> None]

MkTwin(u, refs) ==
    [second_city |-> CityName[u], second_country |-> "Germany", wiki_url |-> u,
     wiki_text |-> CityName[u], refs |-> refs]

MkCity(u, ref, twins) ==
    [name |-> CityName[u], country |-> "Germany", wiki_url |-> u, wiki_text |-> CityName[u],
     source_page |-> "List of twin towns and sister cities in Germany",
     source_type |-> "country", ref |-> ref, twin_cities |-> twins]

\* the lists of cities that add_cities is called with
CityLists ==
    {
      \* A names B, the reference stands at the twin
      <<MkCity("A", <<>>, <<MkTwin("B", <<Ref1>>)>>)>>,
      \* B names A: the same pair the other way round, the same reference at the city
      <<MkCity("B", <<Ref1>>, <<MkTwin("A", <<>>)>>)>>,
      \* A names C with another reference
      <<MkCity("A", <<>>, <<MkTwin("C", <<Ref2>>)>>)>>,
      \* A names C with the reference of the pair (A, B)
      <<MkCity("A", <<>>, <<MkTwin("C", <<Ref1>>)>>)>>,
      \* A names B with a reference that has no url
      <<MkCity("A", <<Ref3>>, <<MkTwin("B", <<>>)>>)>>,
      \* A names B without any reference
      <<MkCity("A", <<>>, <<MkTwin("B", <<>>)>>)>>,
      \* cities without twins
      <<MkCity("B", <<>>, <<>>)>>,
      <<MkCity("C", <<Ref1>>, <<>>)>>,
      \* two cities, the first with a reference of its own and two twins
      <<MkCity("A", <<Ref1>>, <<MkTwin("B", <<>>), MkTwin("C", <<Ref2>>)>>),
        MkCity("C", <<>>, <<>>)>>
    }

(***************************************************************************)
(* The operations of the store.                                            *)
(***************************************************************************)
TheStore ==
    [graph |-> graph, references |-> references, city_pairs |-> city_pairs, next |-> nextBNode]

\* add_cities(cities), lines 25-35
add_cities(cities) ==
    /\ calls < MaxCalls
    /\ LET out == AddCitiesTo(TheStore, cities)
       IN  /\ graph' = out.graph
           /\ references' = out.references
           /\ city_pairs' = out.city_pairs
           /\ nextBNode' = out.next
    /\ calls' = calls + 1
    /\ added' = Append(added, cities)
    /\ contained' = Append(contained, cities)
    /\ UNCHANGED <<alignVars, scraperVars, publisherVars, dashVars, file, loads, fileContained>>

AddCities == \E cities \in CityLists : add_cities(cities)

\* save, lines 167-168: the whole graph goes to the file
save ==
    /\ file' = graph
    /\ fileContained' = contained
    /\ UNCHANGED <<alignVars, scraperVars, publisherVars, dashVars, storeVars, calls, loads, added, contained>>

\* a parsed blank node is a new node of the graph it is parsed into
ParsedNode(node, base) == IF IsBNode(node) THEN BNode(node[2] + base - 1) ELSE node

\* graph.parse: the triples of the file that the graph does not hold yet are
\* added to it
ParseInto(g, triples, base) ==
    LET parsed == [n \in 1 .. Len(triples) |->
                      <<ParsedNode(triples[n][1], base), triples[n][2],
                        ParsedNode(triples[n][3], base)>>]
        kept == SelectSeq([n \in 1 .. Len(parsed) |-> n],
                          LAMBDA n : ~ InGraph(g, parsed[n]))
    IN  g \o [k \in 1 .. Len(kept) |-> parsed[kept[k]]]

BNodeIds(triples) ==
    {triples[n][1][2] : n \in {m \in 1 .. Len(triples) : IsBNode(triples[m][1])}}

MaxOf(S) == IF S = {} THEN 0 ELSE CHOOSE x \in S : \A y \in S : y <= x

\* load, lines 170-171: the triples of the file are added to the graph; the
\* two dictionaries are not touched
load ==
    /\ file # NoFile
    /\ loads < MaxLoads
    /\ graph' = ParseInto(graph, file, nextBNode)
    /\ nextBNode' = nextBNode + MaxOf(BNodeIds(file))
    /\ loads' = loads + 1
    /\ contained' = contained \o fileContained
    /\ UNCHANGED <<alignVars, scraperVars, publisherVars, dashVars, references, city_pairs, file, calls, added, fileContained>>

\* TwinCitiesGraph(), lines 13-23: a new store object replaces the old one
NewStore ==
    /\ graph' = <<>>
    /\ references' = EmptyDict
    /\ city_pairs' = EmptyDict
    /\ nextBNode' = 1
    /\ added' = <<>>
    /\ contained' = <<>>
    /\ UNCHANGED <<alignVars, scraperVars, publisherVars, dashVars, file, calls, loads, fileContained>>

InitGraph == InitStore /\ AlignIdle /\ ScraperIdle /\ PublisherIdle /\ DashIdle

NextGraph ==
    \/ AddCities
    \/ save
    \/ load
    \/ NewStore

SpecGraph == InitGraph /\ [][NextGraph]_vars

(***************************************************************************)
(* Vocabulary of the store claims.                                         *)
(***************************************************************************)
Range(seq) == {seq[n] : n \in 1 .. Len(seq)}

\* the urls listed by get_cities
ListedUrls(g) == {c.url : c \in Range(get_cities(g))}

\* the urls listed by get_twins(city_url): the objects of the twin triples
\* of the city, line 110
TwinUrls(g, city_url) ==
    {ToPython(u) : u \in Range(Objects(g, URIRef(city_url), "twin-cities:twin"))}

ReferenceNodes(g) == Range(Subjects(g, RDF_type, TC_Reference))

CityPairNodes(g) == Range(Subjects(g, RDF_type, TC_CityPair))

\* the City records of a log of add_cities arguments
CitiesOf(log) == UNION {Range(log[n]) : n \in 1 .. Len(log)}

\* the urls that a log links to a twin: as a city with a twin, or as a twin
LinkedUrls(log) ==
    {c.wiki_url : c \in {d \in CitiesOf(log) : d.twin_cities # <<>>}}
    \cup {t.wiki_url : t \in UNION {Range(c.twin_cities) : c \in CitiesOf(log)}}

\* the _add_reference calls made for one twin of one city (lines 32-35),
\* each as <<n, c, t, k, identity, pair>>: the k-th call for twin t of
\* city c of the n-th add_cities argument
RefCallsOfTwin(n, c, city, t) ==
    LET twin == city.twin_cities[t]
        refs == city.ref \o twin.refs
    IN  {<<n, c, t, k, RefIdentity(refs[k]), {city.wiki_url, twin.wiki_url}>> :
            k \in 1 .. Len(refs)}

RefCallsOfCity(n, c, city) ==
    UNION {RefCallsOfTwin(n, c, city, t) : t \in 1 .. Len(city.twin_cities)}

\* the _add_reference calls that a log of add_cities arguments makes
RefCalls(log) ==
    UNION {UNION {RefCallsOfCity(n, c, log[n][c]) : c \in 1 .. Len(log[n])} :
              n \in 1 .. Len(log)}

\* how often a reference of identity k was inserted for the pair
InsertCount(log, k, pair) ==
    Cardinality({x \in RefCalls(log) : x[5] = k /\ x[6] = pair})

\* the identity of a dictionary returned by get_references
DictIdentity(d) == coalesce(<<d.url, d.website, d.name, d.publisher, "unknown">>)

NoDuplicates(g) == \A m, n \in 1 .. Len(g) : g[m] = g[n] => m = n

\* the cities that a CityPair node is linked to
PairCities(g, city_pair) == Range(Objects(g, city_pair, "twin-cities:city"))

\* some Reference node with this url is scoped to a CityPair whose cities
\* are exactly city_url and twin_url
ScopedExactly(g, url, city_url, twin_url) ==
    \E ref \in ReferenceNodes(g) :
        /\ Value(g, ref, "twin-cities:url") = Literal(url)
        /\ \E city_pair \in Range(Objects(g, ref, "twin-cities:city_pair")) :
              PairCities(g, city_pair) = {URIRef(city_url), URIRef(twin_url)}

(***************************************************************************)
(* Claims about the store.                                                 *)
(***************************************************************************)
\* C5: after any sequence of add_cities calls (and loads of saved graphs)
\* the twin relation is symmetric: B is among get_twins(A) iff A is among
\* get_twins(B).
C5_TwinsSymmetric ==
    \A a, b \in CityUrls : (b \in TwinUrls(graph, a)) <=> (a \in TwinUrls(graph, b))

\* C5 witness: only "A names C" was ingested, and C lists A as twin.
C5_Witness ==
    /\ added # <<>>
    /\ \A c \in CitiesOf(contained) : c.wiki_url = "A" /\ c.twin_cities # <<>>
    /\ \A c \in CitiesOf(contained) : \A t \in Range(c.twin_cities) : t.wiki_url = "C"
    /\ \E t \in Range(get_twins(graph, "C")) : t.url = "A"

\* C6 (as stated): whatever city_url and twin_url get_references is called
\* with, every reference it returns is scoped to a CityPair whose cities are
\* exactly that city and that twin, and a reference of that identity was
\* inserted for that very pair.  Refuted by get_references(A, A), which
\* returns the references of the pair (A, B).
C6_ReturnedOnlyIfScoped ==
    \A city_url, twin_url \in CityUrls :
        LET res == get_references(graph, city_url, twin_url)
        IN  (~ res.raised) =>
                \A d \in Range(res.value) :
                    /\ ScopedExactly(graph, d.url, city_url, twin_url)
                    /\ InsertCount(contained, d.url, {city_url, twin_url}) >= 1

\* C7 (as stated): in a store filled by add_cities alone, a reference
\* identity inserted twice or more for one city pair has one Reference node
\* (there are as many Reference nodes as identities), and get_references
\* for that pair returns that reference exactly once.  Refuted by a
\* reference without url, for which get_references raises.
C7_OneNodeReturnedOnce ==
    (contained = added) =>
        \A x \in RefCalls(added) :
            InsertCount(added, x[5], x[6]) >= 2 =>
                /\ Cardinality(ReferenceNodes(graph))
                       = Cardinality({y[5] : y \in RefCalls(added)})
                /\ \A city_url, twin_url \in x[6] :
                      (x[6] = {city_url, twin_url}) =>
                          LET res == get_references(graph, city_url, twin_url)
                          IN  /\ ~ res.raised
                              /\ Cardinality({n \in 1 .. Len(res.value) :
                                     DictIdentity(res.value[n]) = x[5]}) = 1

\* C8 (as stated): a City ingested with an empty twin_cities list is not
\* listed by get_cities().  Refuted when another ingested city names it as
\* its twin.
C8_EmptyCityNeverListed ==
    \A c \in CitiesOf(contained) :
        c.twin_cities = <<>> => c.wiki_url \notin ListedUrls(graph)

\* C8 (amended): a City ingested with an empty twin_cities list is listed
\* by get_cities() exactly when its url was also ingested with a twin of its
\* own or as the twin of another city; ingested only without twins, it is
\* not listed.
C8_EmptyCityListedIffLinked ==
    \A c \in CitiesOf(contained) :
        c.twin_cities = <<>> =>
            (c.wiki_url \in ListedUrls(graph) <=> c.wiki_url \in LinkedUrls(contained))

\* C8 witness: C was ingested without twins and is nobody's twin; it is a
\* City node of the graph and get_cities lists other cities but not C.
C8_Witness ==
    /\ \E c \in CitiesOf(contained) : c.wiki_url = "C" /\ c.twin_cities = <<>>
    /\ "C" \notin LinkedUrls(contained)
    /\ InGraph(graph, <<URIRef("C"), RDF_type, TC_City>>)
    /\ "A" \in ListedUrls(graph)
    /\ "C" \notin ListedUrls(graph)

\* the step is add_cities(cities)
IsAddCities(cities) == add_cities(cities)

\* C9: an add_cities call whose argument was already passed to add_cities
\* of the same store object changes nothing: the graph, the two dictionaries
\* and the node counter stay as they are, no triple occurs twice, the
\* Reference and CityPair nodes are the same, and get_cities, get_twins and
\* get_references answer as before.
C9_SecondCallChangesNothing ==
    [][\A cities \in CityLists :
          (cities \in Range(added) /\ IsAddCities(cities)) =>
              /\ graph' = graph
              /\ references' = references
              /\ city_pairs' = city_pairs
              /\ nextBNode' = nextBNode
              /\ NoDuplicates(graph')
              /\ ReferenceNodes(graph') = ReferenceNodes(graph)
              /\ CityPairNodes(graph') = CityPairNodes(graph)
              /\ get_cities(graph') = get_cities(graph)
              /\ \A a \in CityUrls : get_twins(graph', a) = get_twins(graph, a)
              /\ \A a, b \in CityUrls :
                    get_references(graph', a, b) = get_references(graph, a, b)]_vars

\* C9 witness: the two-city list was passed twice to the same store, which
\* holds Reference and CityPair nodes.
C9_Witness ==
    /\ Len(added) = 2
    /\ added[1] = added[2]
    /\ Len(added[1]) = 2
    /\ Cardinality(ReferenceNodes(graph)) = 2
    /\ Cardinality(CityPairNodes(graph)) = 2

\* C10 (as stated): in a store object that was filled by load() alone, an
\* add_cities call with an argument whose ingestion the loaded graph already
\* holds creates no Reference node and no CityPair node.  Refuted: the
\* dictionaries of the new object are empty, so each reference and each
\* pair gets a second node.
C10_ReingestAfterLoadAddsNoNode ==
    [][\A cities \in CityLists :
          (IsAddCities(cities) /\ added = <<>> /\ cities \in Range(contained)) =>
              /\ ReferenceNodes(graph') = ReferenceNodes(graph)
              /\ CityPairNodes(graph') = CityPairNodes(graph)]_vars

\* the references ingested for the pair of a city and one of its twins
RefsIngested(log, city_url, twin_url) ==
    UNION {UNION {Range(c.ref) \cup Range(t.refs) :
                     t \in {u \in Range(c.twin_cities) :
                               {c.wiki_url, u.wiki_url} = {city_url, twin_url}}} :
              c \in CitiesOf(log)}

\* C27: in a store built by add_cities, get_references(city_url, twin_url)
\* returns normally for every pair of cities, and a reference of the pair
\* that has no url (its identity is its website, title or publisher, or
\* "unknown") is returned once, with url = None.
C27_UrllessReferenceReturned ==
    (contained = added) =>
        \A city_url, twin_url \in CityUrls :
            LET res == get_references(graph, city_url, twin_url)
            IN  /\ ~ res.raised
                /\ \A reference \in RefsIngested(added, city_url, twin_url) :
                      reference.url = None =>
                          Cardinality({n \in 1 .. Len(res.value) :
                              /\ res.value[n].url = None
                              /\ DictIdentity(res.value[n]) = RefIdentity(reference)}) = 1

\* the unordered pairs of a city and a twin that were ingested with at
\* least one reference, each as the set of the two URIRefs
PairsWithReference(log) ==
    {{URIRef(c.wiki_url), URIRef(t.wiki_url)} :
        <<c, t>> \in {x \in CitiesOf(log) \X UNION {Range(d.twin_cities) : d \in CitiesOf(log)} :
                        x[2] \in Range(x[1].twin_cities) /\ x[1].ref \o x[2].refs # <<>>}}

\* C28: after any sequence of add_cities calls on one store there is at
\* most one CityPair node per unordered pair of city urls, whichever of the
\* two was the originating city, and each CityPair node is linked to exactly
\* the two cities of its pair (the pairs being those ingested with a
\* reference).
C28_OneCityPairPerUnorderedPair ==
    (contained = added) =>
        /\ \A p, q \in CityPairNodes(graph) :
              PairCities(graph, p) = PairCities(graph, q) => p = q
        /\ {PairCities(graph, p) : p \in CityPairNodes(graph)} = PairsWithReference(added)

\* C28 witness: the pair of A and B was ingested with a reference from both
\* ends, by two calls, and the store holds one CityPair node.
C28_Witness ==
    /\ contained = added
    /\ Len(added) = 2
    /\ added[1] = <<MkCity("A", <<>>, <<MkTwin("B", <<Ref1>>)>>)>>
    /\ added[2] = <<MkCity("B", <<Ref1>>, <<MkTwin("A", <<>>)>>)>>
    /\ Cardinality(CityPairNodes(graph)) = 1

(***************************************************************************)
(* Scraper, src/scraper/scrape.py.                                         *)
(*                                                                         *)
(* Strings are atoms here, so each string operation of the scraper is      *)
(* tabulated on the strings that occur in the pages below.                 *)
(***************************************************************************)
BASE_PATH == "https://en.wikipedia.org/"

\* re.sub(r"\s+", "_", title), line 65
Underscored(title) ==
    CASE title = "Lesser Poland" -> "Lesser_Poland"
      [] title = "Sister city" -> "Sister_city"
      [] OTHER -> title

\* get_url(title), lines 58-66; re.sub raises TypeError on None
get_url(title) ==
    IF title = None THEN Raised
    ELSE Returned(<<BASE_PATH, "wiki/", Underscored(title)>>)

\* str.strip(", \n'"), lines 164 and 227
Stripped(str) ==
    CASE str = ", Poland" -> "Poland"
      [] str = "'''" -> ""
      [] str = "\n" -> ""
      [] OTHER -> str

\* get_country_name(country_string), lines 297-306: the text after the
\* first " in ", without any "the "; re.search gives None when there is no
\* " in " and .group then raises AttributeError
get_country_name(country_string) ==
    CASE country_string = "List of twin towns and sister cities in Poland" -> Returned("Poland")
      [] country_string = "List of twin towns and sister cities in the Philippines"
           -> Returned("Philippines")
      [] country_string = "List of sister cities in Metro Manila" -> Returned("Metro Manila")
      [] country_string = "Twin towns in Poland" -> Returned("Poland")
      [] country_string = "List of sister cities in Europe" -> Returned("Europe")
      [] OTHER -> Raised

(***************************************************************************)
(* The nodes of a parsed page.  A page is the sequence of its top-level    *)
(* nodes; a ref tag holds its attributes and its content nodes.            *)
(***************************************************************************)
Heading(title) == [kind |-> "heading", title |-> title]
Wikilink(title, text) == [kind |-> "link", title |-> title, text |-> text]
Text(value) == [kind |-> "text", value |-> value]
Li == [kind |-> "li"]
Template(name, params) == [kind |-> "template", name |-> name, params |-> params]
ExternalLink(url) == [kind |-> "extlink", url |-> url]
RefTag(attributes, contents) ==
    [kind |-> "ref", attributes |-> attributes, contents |-> contents]
Attribute(name, value) == [name |-> name, value |-> value]
Param(name, value) == [name |-> name, value |-> value]

\* str(node), as far as the scraper looks at it
StrOf(node) ==
    CASE node.kind = "text" -> node.value
      [] node.kind = "extlink" -> node.url
      [] node.kind = "link" -> "[[...]]"
      [] node.kind = "heading" -> "==...=="
      [] node.kind = "li" -> "*"
      [] node.kind = "ref" -> "<ref>"
      [] OTHER -> "{{...}}"

\* str.startswith("url"), line 281
StartsWithUrl(str) == str \in {"url ", "url"}

\* Reference(...), lines 9-18
MkReference(url, website, title, publisher, language, access_date, date) ==
    [url |-> url, website |-> website, title |-> title, publisher |-> publisher,
     language |-> language, access_date |-> access_date, date |-> date]

\* Template.has(name)
TemplateHas(t, name) == \E n \in 1 .. Len(t.params) : t.params[n].name = name

\* str(Template.get(name).value): the last parameter of that name
TemplateGet(t, name) ==
    LET last == CHOOSE n \in 1 .. Len(t.params) :
                    /\ t.params[n].name = name
                    /\ \A m \in n + 1 .. Len(t.params) : t.params[m].name # name
    IN  t.params[last].value

Field(t, name) == IF TemplateHas(t, name) THEN TemplateGet(t, name) ELSE None

\* lines 286-295: the Reference of one content node; a node that is neither
\* an external link nor a template has no .has and the call raises
ReferenceOfNode(reference_txt) ==
    CASE reference_txt.kind = "extlink" ->
           Returned(MkReference(reference_txt.url, None, None, None, None, None, None))
      [] reference_txt.kind = "template" ->
           Returned(MkReference(Field(reference_txt, "url"), Field(reference_txt, "website"),
                                Field(reference_txt, "title"), Field(reference_txt, "publisher"),
                                Field(reference_txt, "language"),
                                Field(reference_txt, "access-date"), Field(reference_txt, "date")))
      [] OTHER -> Raised

\* get_reference(nodes), lines 271-295; nodes[0] of an empty list raises
get_reference(nodes) ==
    IF Len(nodes) = 1 THEN ReferenceOfNode(nodes[1])
    ELSE IF Len(nodes) = 0 THEN Raised
    ELSE IF StartsWithUrl(StrOf(nodes[1]))
         THEN Returned(MkReference(StrOf(nodes[2]), None, None, None, None, None, None))
         ELSE ReferenceOfNode(nodes[1])

\* a local variable that no assignment has reached yet
Unbound == "<unbound>"

\* the loops over the attributes of a tag, lines 265-267 and 319-323
RECURSIVE NameAfter(_, _)
NameAfter(attributes, name) ==
    IF attributes = <<>> THEN name
    ELSE NameAfter(Tail(attributes),
                   IF Head(attributes).name = "name" THEN Head(attributes).value ELSE name)

IsGood(attributes) == \A n \in 1 .. Len(attributes) : attributes[n].name # "group"

\* the ref tags of a page, in document order (wiki_text.filter, line 315)
RefTags(wiki_text) == SelectSeq(wiki_text, LAMBDA node : node.kind = "ref")

\* the loop of build_named_reference_dictionary, lines 315-326; name is the
\* local variable of the function, so it keeps its value from tag to tag
RECURSIVE NamedReferenceLoop(_, _, _)
NamedReferenceLoop(tags, name, reference_dict) ==
    IF tags = <<>> THEN Returned(reference_dict)
    ELSE LET el == Head(tags)
             name1 == NameAfter(el.attributes, name)
         IN  IF Len(el.attributes) = 0 THEN NamedReferenceLoop(Tail(tags), name, reference_dict)
             ELSE IF Len(el.contents) = 1 /\ IsGood(el.attributes)
             THEN LET r == get_reference(el.contents)
                  IN  IF r.raised \/ name1 = Unbound THEN Raised
                      ELSE NamedReferenceLoop(Tail(tags), name1,
                               [k \in DOMAIN reference_dict \cup {name1} |->
                                   IF k = name1 THEN r.value ELSE reference_dict[k]])
             ELSE NamedReferenceLoop(Tail(tags), name1, reference_dict)

\* build_named_reference_dictionary(wiki_text), lines 308-327
build_named_reference_dictionary(wiki_text) ==
    NamedReferenceLoop(RefTags(wiki_text), Unbound, EmptyDict)

\* a mutant: an unknown name is looked up all the same (KeyError)
parse_reference_lookup(reference_tag, reference_dict) ==
    IF Len(reference_tag.attributes) = 0 THEN get_reference(reference_tag.contents)
    ELSE LET name == NameAfter(reference_tag.attributes, Unbound)
         IN  IF name \in DOMAIN reference_dict THEN Returned(reference_dict[name]) ELSE Raised

\* parse_reference(reference_tag, reference_dict), lines 253-269
parse_reference(reference_tag, reference_dict) ==
    IF Len(reference_tag.attributes) = 0 THEN get_reference(reference_tag.contents)
    ELSE LET name == NameAfter(reference_tag.attributes, Unbound)
         IN  IF name = Unbound THEN Raised
             ELSE IF name \in DOMAIN reference_dict THEN Returned(reference_dict[name])
             ELSE Returned(NoneObj)

(***************************************************************************)
(* The page scraper.  The City objects a scrape call creates live in       *)
(* heap, in creation order; cities, city and twin_city refer to them by    *)
(* position, so that an append through one name is seen through the        *)
(* others, as with the Python objects.                                     *)
(***************************************************************************)
\* City(...), lines 31-41
MkCityRecord(name, country, wiki_url, wiki_text) ==
    [name |-> name, country |-> country, wiki_url |-> wiki_url, wiki_text |-> wiki_text,
     source_page |-> None, source_type |-> "country", ref |-> <<>>, twin_cities |-> <<>>]

\* TwinCitiesAgreement(...), lines 21-28
MkTwinRecord(second_city, second_country, wiki_url, wiki_text) ==
    [second_city |-> second_city, second_country |-> second_country, wiki_url |-> wiki_url,
     wiki_text |-> wiki_text, refs |-> <<>>]

NoCity == 0
NoTwin == <<0, 0>>

\* wikitext.filter(matches=...), lines 138-141 and 199-202: the headings,
\* links, tags and templates in document order, the templates inside a ref
\* tag right after the tag; at is the place of a top-level node in
\* wikitext.nodes and 0 for a nested one
RECURSIVE FilterFrom(_, _)
FilterFrom(nodes, n) ==
    IF n > Len(nodes) THEN <<>>
    ELSE LET node == nodes[n]
             inner == IF node.kind = "ref"
                      THEN SelectSeq(node.contents, LAMBDA c : c.kind = "template")
                      ELSE <<>>
             here == IF node.kind \in {"heading", "link", "ref", "li", "template"}
                     THEN <<[node |-> node, at |-> n]>>
                     ELSE <<>>
         IN  here \o [k \in 1 .. Len(inner) |-> [node |-> inner[k], at |-> 0]]
                  \o FilterFrom(nodes, n + 1)

Filter(nodes) == FilterFrom(nodes, 1)

\* the locals before the loop, lines 133-137 and 194-198
FrameAtCall(reference_dict, country, queue) ==
    [reference_dict |-> reference_dict, cities |-> <<>>, heap |-> <<>>,
     header |-> None, country |-> country, city |-> NoCity, twin_city |-> NoTwin,
     count |-> 0, last_count |-> -1, countries_to_scrape |-> queue, state |-> "loop"]

Raise(s) == [s EXCEPT !.state = "raised"]

\* wikitext.nodes[wikitext.index(line) + 1].strip(", \n'"), lines 164 and 227
TwinCountry(nodes, at) ==
    IF at = 0 \/ at + 1 > Len(nodes) THEN Raised
    ELSE Returned(Stripped(StrOf(nodes[at + 1])))

LinkName(line) == IF line.text # None THEN line.text ELSE line.title

\* a link opens a city, lines 154-159 and 215-222 (without the name filter)
OpenCity(s, line, country) ==
    LET city == MkCityRecord(LinkName(line), country, get_url(line.title).value, line.title)
        id == Len(s.heap) + 1
    IN  [s EXCEPT !.heap = Append(@, city), !.cities = Append(@, id), !.city = id,
                  !.last_count = -1, !.count = 0]

\* a link names a twin, lines 161-169 and 224-232
AppendTwin(s, nodes, entry) ==
    LET line == entry.node
        twin_country == TwinCountry(nodes, entry.at)
        twin_city == MkTwinRecord(LinkName(line), twin_country.value,
                                  get_url(line.title).value, line.title)
    IN  IF twin_country.raised \/ s.city = NoCity THEN Raise(s)
        ELSE [s EXCEPT !.heap[s.city].twin_cities = Append(@, twin_city),
                       !.twin_city = <<s.city, Len(s.heap[s.city].twin_cities) + 1>>,
                       !.last_count = s.count]

\* city.ref.append(city_ref), lines 173 and 239
AppendCityRef(s, reference) ==
    IF s.city = NoCity THEN Raise(s)
    ELSE [s EXCEPT !.heap[s.city].ref = Append(@, reference)]

\* twin_city.refs.append(twin_city_ref), lines 176 and 243
AppendTwinRef(s, reference) ==
    IF s.twin_city = NoTwin THEN Raise(s)
    ELSE [s EXCEPT !.heap[s.twin_city[1]].twin_cities[s.twin_city[2]].refs = Append(@, reference)]

\* a list item with no city open makes a City of the country, lines 179-180 and 246-247
Placeholder(s, country) ==
    LET url == get_url(country)
    IN  IF url.raised THEN Raise(s)
        ELSE [s EXCEPT !.heap = Append(@, MkCityRecord(country, country, url.value, country)),
                       !.city = Len(s.heap) + 1]

\* a main template, lines 181-183 and 248-250; params[0] of a template
\* without parameters raises
MainTemplate(s, line) ==
    IF Len(line.params) = 0 THEN Raise(s)
    ELSE [s EXCEPT !.countries_to_scrape = @ \cup {<<line.params[1].value, None>>}]

\* ---- scrape_country, lines 186-251 ----

\* a heading, lines 203-210
CountryHeading(s, line) ==
    LET s1 == [s EXCEPT !.header = line.title]
        s2 == IF s.city # NoCity
              THEN [s1 EXCEPT !.count = 0, !.city = NoCity, !.twin_city = NoTwin]
              ELSE s1
    IN  IF line.title = "References" THEN [s2 EXCEPT !.state = "break"] ELSE s2

\* a link, lines 211-232
CountryLink(s, nodes, entry) ==
    IF s.header = None THEN s
    ELSE IF s.count = 0 \/ s.last_count = s.count
    THEN IF LinkName(entry.node) \in {"town twinning", "European Union"} THEN s
         ELSE OpenCity(s, entry.node, s.country)
    ELSE AppendTwin(s, nodes, entry)

\* a ref tag, lines 233-243
CountryRef(s, line) ==
    IF s.header = None THEN s
    ELSE LET r == parse_reference(line, s.reference_dict)
         IN  IF r.raised THEN Raise(s)
             ELSE IF r.value = NoneObj THEN s
             ELSE IF s.count = 0 THEN AppendCityRef(s, r.value)
             ELSE AppendTwinRef(s, r.value)

\* a list item, lines 244-247
CountryLi(s) ==
    LET s1 == [s EXCEPT !.count = @ + 1]
    IN  IF s1.city = NoCity THEN Placeholder(s1, s1.country) ELSE s1

\* one pass of the loop body, lines 203-250
CountryStep(s, nodes, entry) ==
    LET line == entry.node
    IN  CASE line.kind = "heading" -> CountryHeading(s, line)
          [] line.kind = "link" -> CountryLink(s, nodes, entry)
          [] line.kind = "ref" -> CountryRef(s, line)
          [] line.kind = "li" -> CountryLi(s)
          [] line.kind = "template" /\ line.name = "main" -> MainTemplate(s, line)
          [] OTHER -> s

\* ---- scrape_continent, lines 127-184 ----

\* a mutant: the References heading does not end the loop
ContinentHeadingGoesOn(s, line) ==
    LET s1 == [s EXCEPT !.country = line.title]
    IN  IF s.city # NoCity
        THEN [s1 EXCEPT !.count = 0, !.city = NoCity, !.twin_city = NoTwin]
        ELSE s1

\* a heading, lines 142-149: the heading is the country of what follows
ContinentHeading(s, line) ==
    LET s1 == [s EXCEPT !.country = line.title]
        s2 == IF s.city # NoCity
              THEN [s1 EXCEPT !.count = 0, !.city = NoCity, !.twin_city = NoTwin]
              ELSE s1
    IN  IF line.title = "References" THEN [s2 EXCEPT !.state = "break"] ELSE s2

\* a link, lines 150-169
ContinentLink(s, nodes, entry) ==
    IF s.country = None THEN s
    ELSE IF s.count = 0 \/ s.last_count = s.count THEN OpenCity(s, entry.node, s.country)
    ELSE AppendTwin(s, nodes, entry)

\* a ref tag, lines 170-176: what parse_reference gives is appended as it is
ContinentRef(s, line) ==
    LET r == parse_reference(line, s.reference_dict)
    IN  IF r.raised THEN Raise(s)
        ELSE IF s.count = 0 THEN AppendCityRef(s, r.value)
        ELSE AppendTwinRef(s, r.value)

\* a list item, lines 177-180
ContinentLi(s) ==
    LET s1 == [s EXCEPT !.count = @ + 1]
    IN  IF s1.city = NoCity THEN Placeholder(s1, s1.country) ELSE s1

\* one pass of the loop body, lines 142-183
ContinentStep(s, nodes, entry) ==
    LET line == entry.node
    IN  CASE line.kind = "heading" -> ContinentHeading(s, line)
          [] line.kind = "link" -> ContinentLink(s, nodes, entry)
          [] line.kind = "ref" -> ContinentRef(s, line)
          [] line.kind = "li" -> ContinentLi(s)
          [] line.kind = "template" /\ line.name = "main" -> MainTemplate(s, line)
          [] OTHER -> s

\* ---- a whole scrape call ----
Step(m, s, nodes, entry) ==
    IF m = "country" THEN CountryStep(s, nodes, entry) ELSE ContinentStep(s, nodes, entry)

RECURSIVE Loop(_, _, _, _, _)
Loop(m, s, nodes, lines, n) ==
    IF n > Len(lines) \/ s.state # "loop" THEN s
    ELSE Loop(m, Step(m, s, nodes, lines[n]), nodes, lines, n + 1)

\* the list a scrape call returns: the objects that cities refers to
CitiesOfFrame(s) == [k \in 1 .. Len(s.cities) |-> s.heap[s.cities[k]]]

\* the outcome of a scrape call: whether it raised, the list it returned,
\* and self.countries_to_scrape after it
Outcome(s) ==
    [raised |-> s.state = "raised",
     cities |-> IF s.state = "raised" THEN <<>> ELSE CitiesOfFrame(s),
     countries_to_scrape |-> s.countries_to_scrape]

ScrapeCallOf(m, nodes, country, queue) ==
    LET reference_dict == build_named_reference_dictionary(nodes)
    IN  IF reference_dict.raised THEN Raise(FrameAtCall(EmptyDict, country, queue))
        ELSE Loop(m, FrameAtCall(reference_dict.value, country, queue), nodes, Filter(nodes), 1)

\* scrape_country(wikitext, country), lines 186-251
scrape_country(nodes, country, queue) == Outcome(ScrapeCallOf("country", nodes, country, queue))

\* scrape_continent(wikitext), lines 127-184
scrape_continent(nodes, queue) == Outcome(ScrapeCallOf("continent", nodes, None, queue))

(***************************************************************************)
(* The pages the page scraper is run on: every sequence of up to MaxItems  *)
(* items, and some longer pages.                                           *)
(***************************************************************************)
MaxItems == 4

CiteXT == Template("cite web", <<Param("url", "http://x"), Param("title", "T")>>)
PolandList == "List of twin towns and sister cities in Poland"

LinkRadom == Wikilink("Radom", None)
LinkKielce == Wikilink("Kielce", None)
LinkLublin == Wikilink("Lublin", None)
LinkTwinning == Wikilink("Sister city", "town twinning")
RefCite == RefTag(<<>>, <<CiteXT>>)
RefNamedUse == RefTag(<<Attribute("name", "n")>>, <<>>)
RefNamedDef == RefTag(<<Attribute("name", "n")>>, <<CiteXT>>)
MainPoland == Template("main", <<Param("1", PolandList)>>)

Items ==
    { <<Heading("Lesser Poland")>>,
      <<Heading("References")>>,
      <<LinkRadom>>,
      <<LinkKielce, Text(", Poland")>>,
      <<Li>>,
      <<RefCite>>,
      <<MainPoland>> }

RECURSIVE Flatten(_)
Flatten(seqs) == IF seqs = <<>> THEN <<>> ELSE Head(seqs) \o Flatten(Tail(seqs))

\* '''[[Radom]]'''<ref>{{cite web|url=http://x|title=T}}</ref> and then *[[Kielce]], Poland
RadomEntry ==
    <<Text("'''"), LinkRadom, Text("'''"), RefCite, Text("\n"), Li, LinkKielce, Text(", Poland")>>

LongPages ==
    { RadomEntry,
      <<Heading("Lesser Poland")>> \o RadomEntry,
      \* a name that no tag of the page defines, at a city and at a twin
      <<Heading("Lesser Poland"), LinkRadom, RefNamedUse>>,
      <<Heading("Lesser Poland"), LinkRadom, Li, LinkKielce, Text(", Poland"), RefNamedUse>>,
      \* a name defined at the city and used at the twin
      <<Heading("Lesser Poland"), LinkRadom, RefNamedDef, Li, LinkKielce, Text(", Poland"),
        RefNamedUse>>,
      \* links that name no city
      <<Heading("Lesser Poland"), LinkTwinning, Text("\n"), LinkRadom, Li, LinkKielce,
        Text(", Poland")>>,
      <<Heading("Lesser Poland"), LinkRadom, Li, LinkTwinning, Text("\n")>>,
      \* two sections of list items without a city link
      <<Heading("Lesser Poland"), Li, LinkKielce, Text(", Poland"),
        Heading("Lesser Poland"), Li, LinkKielce, Text(", Poland")>>,
      \* a name used at a city and defined in the References section
      <<Heading("Lesser Poland"), LinkRadom, RefNamedUse, Heading("References"), RefNamedDef>>,
      \* a second city whose list item starts with a citation
      <<Heading("Lesser Poland"), LinkRadom, Li, LinkKielce, Text(", Poland"), LinkLublin, Li,
        RefCite, LinkKielce, Text(", Poland")>>,
      \* an entry and a main template in the References section
      <<Heading("Lesser Poland"), LinkRadom, Heading("References"), LinkKielce, RefCite, Li,
        LinkRadom, Text(", Poland"), MainPoland>> }

Pages == {Flatten(items) : items \in SeqsUpTo(Items, MaxItems)} \cup LongPages

(***************************************************************************)
(* A scrape call as a step machine: one action per kind of node.           *)
(***************************************************************************)
Lines == Filter(wikitext)

InLoop == scrapePc = "loop" /\ frame.state = "loop" /\ line_no < Len(Lines)

Line == Lines[line_no + 1]

\* the loop body on the current node
ScrapeStep ==
    LET s == Step(mode, frame, wikitext, Line)
    IN  /\ frame' = s
        /\ line_no' = line_no + 1
        /\ scrapePc' = IF s.state = "raised" THEN "raised" ELSE "loop"
        /\ countries_to_scrape' = s.countries_to_scrape
        /\ UNCHANGED <<alignVars, graphVars, publisherVars, dashVars, continents_to_scrape, self_cities,
                       wikitext, mode, wiki, runPc, fetched>>

\* the call: the named references are collected before the loop starts
ScrapeCall ==
    /\ scrapePc = "called"
    /\ LET reference_dict == build_named_reference_dictionary(wikitext)
           country == IF mode = "country" THEN "Poland" ELSE None
       IN  IF reference_dict.raised
           THEN /\ scrapePc' = "raised"
                /\ frame' = Raise(FrameAtCall(EmptyDict, country, countries_to_scrape))
           ELSE /\ scrapePc' = "loop"
                /\ frame' = FrameAtCall(reference_dict.value, country, countries_to_scrape)
    /\ UNCHANGED <<alignVars, graphVars, publisherVars, dashVars, continents_to_scrape,
                   countries_to_scrape, self_cities, wikitext, mode, line_no, wiki, runPc,
                   fetched>>

ScrapeHeading == InLoop /\ Line.node.kind = "heading" /\ ScrapeStep

ScrapeLink == InLoop /\ Line.node.kind = "link" /\ ScrapeStep

ScrapeRef == InLoop /\ Line.node.kind = "ref" /\ ScrapeStep

ScrapeLi == InLoop /\ Line.node.kind = "li" /\ ScrapeStep

ScrapeTemplate == InLoop /\ Line.node.kind = "template" /\ ScrapeStep

\* the loop ends at the last node or at the References heading
ScrapeReturn ==
    /\ scrapePc = "loop"
    /\ frame.state = "break" \/ line_no = Len(Lines)
    /\ scrapePc' = "returned"
    /\ UNCHANGED <<alignVars, graphVars, publisherVars, dashVars, continents_to_scrape,
                   countries_to_scrape, self_cities, wikitext, mode, frame, line_no, wiki,
                   runPc, fetched>>

InitScrape ==
    /\ mode \in {"country", "continent"}
    /\ wikitext \in Pages
    /\ frame = <<>>
    /\ line_no = 0
    /\ scrapePc = "called"
    /\ continents_to_scrape = {}
    /\ countries_to_scrape = {}
    /\ self_cities = <<>>
    /\ wiki = <<>>
    /\ runPc = "done"
    /\ fetched = <<>>
    /\ InitStore
    /\ AlignIdle
    /\ PublisherIdle
    /\ DashIdle

NextScrape ==
    \/ ScrapeCall
    \/ ScrapeHeading
    \/ ScrapeLink
    \/ ScrapeRef
    \/ ScrapeLi
    \/ ScrapeTemplate
    \/ ScrapeReturn

SpecScrape == InitScrape /\ [][NextScrape]_vars

\* what the call returns, once it has returned
Result == CitiesOfFrame(frame)

ScrapeReturned == scrapePc = "returned"

(***************************************************************************)
(* Claims about the page scraper.                                          *)
(***************************************************************************)
ScrapeEnded == scrapePc \in {"returned", "raised"}

\* one City named Radom with one Reference(url=http://x, title=T) and one
\* TwinCitiesAgreement(second_city=Kielce, second_country=Poland)
IsRadomWithKielce(list) ==
    /\ Len(list) = 1
    /\ list[1].name = "Radom"
    /\ list[1].ref = <<MkReference("http://x", None, "T", None, None, None, None)>>
    /\ Len(list[1].twin_cities) = 1
    /\ list[1].twin_cities[1].second_city = "Kielce"
    /\ list[1].twin_cities[1].second_country = "Poland"

\* C11: scraping, in country mode, the page without a heading that
\* consists of the link Radom with a citation (url=http://x, title=T) and
\* the list item with the link Kielce followed by ", Poland" returns exactly
\* one City Radom with that Reference and the twin Kielce, Poland.
C11_HeadinglessEntryScraped ==
    (ScrapeEnded /\ mode = "country" /\ wikitext = RadomEntry)
        => (ScrapeReturned /\ IsRadomWithKielce(Result))

(***************************************************************************)
(* run(), lines 98-125: the crawl over the two queues.  The wiki maps the  *)
(* title of every page that exists to its nodes.                           *)
(***************************************************************************)
RootTitle == "Lists of twin towns and sister cities"
EuropeList == "List of sister cities in Europe"
PhilippinesList == "List of twin towns and sister cities in the Philippines"
ManilaList == "List of sister cities in Metro Manila"
PolishList == "List of Polish twin towns"

\* str.startswith("List of "), lines 88-89
StartsWithListOf(title) ==
    title \in {EuropeList, PolandList, PhilippinesList, ManilaList, PolishList}

MainPhilippines == Template("main", <<Param("1", PhilippinesList)>>)

RootPages ==
    { <<Li, Wikilink(EuropeList, None), Li, Li, Wikilink(PolandList, None)>>,
      <<Wikilink("Sister city", None), Li, Li, Wikilink(PolandList, None),
        Li, Li, Wikilink(PhilippinesList, None), Li, Li, Wikilink(ManilaList, None)>>,
      <<Li, Wikilink(EuropeList, None), Li, Li, Wikilink(PolandList, "Twin towns in Poland"),
        Li, Li, Wikilink(PolishList, None)>> }

KielceTwin == <<Li, LinkKielce, Text(", Poland")>>

\* no page: the title is not in the wiki and the fetch fails
Missing == <<"missing">>

EuropePages ==
    { <<Heading("Poland"), LinkRadom>> \o KielceTwin,
      <<MainPoland, Heading("Poland"), LinkRadom>>,
      Missing }

\* a page that names a page which may name it back lists no city, so that a
\* crawl going round such pages collects nothing new
PolandPages ==
    { <<Heading("Lesser Poland"), LinkRadom>> \o KielceTwin,
      <<MainPoland, Heading("Lesser Poland")>>,
      <<MainPhilippines, Heading("Lesser Poland")>>,
      Missing }

PhilippinesPages ==
    { <<Heading("Luzon"), LinkKielce, Text(", Poland")>>,
      <<MainPoland, Heading("Luzon")>>,
      \* a citation before any city link: the scrape of this page raises
      <<Heading("Luzon"), RefCite>>,
      Missing }

ManilaPage == <<Heading("Manila"), LinkRadom>>

\* the wiki made of the given pages
WikiOf(root, europe, poland, philippines) ==
    LET all == [t \in {RootTitle, EuropeList, PolandList, PhilippinesList, ManilaList} |->
                   CASE t = RootTitle -> root
                     [] t = EuropeList -> europe
                     [] t = PolandList -> poland
                     [] t = PhilippinesList -> philippines
                     [] OTHER -> ManilaPage]
    IN  [t \in {u \in DOMAIN all : all[u] # Missing} |-> all[t]]

Wikis ==
    {WikiOf(root, europe, poland, philippines) :
        root \in RootPages, europe \in EuropePages, poland \in PolandPages,
        philippines \in PhilippinesPages}

\* get_wiki_text(title), lines 68-76: page.get raises when there is no page
get_wiki_text(title) ==
    IF title \in DOMAIN wiki THEN Returned(wiki[title]) ELSE Raised

\* the loop of add_initial_pages_to_scrape, lines 85-96
RECURSIVE InitialPagesLoop(_, _, _)
InitialPagesLoop(nodes, counter, queues) ==
    IF nodes = <<>> THEN queues
    ELSE LET node == Head(nodes)
         IN  IF node.kind = "link" /\ StartsWithListOf(node.title)
             THEN InitialPagesLoop(Tail(nodes), 0,
                      IF counter = 1
                      THEN [queues EXCEPT !.continents = @ \cup {<<node.title, node.text>>}]
                      ELSE [queues EXCEPT !.countries = @ \cup {<<node.title, node.text>>}])
             ELSE IF node.kind = "li" THEN InitialPagesLoop(Tail(nodes), counter + 1, queues)
             ELSE InitialPagesLoop(Tail(nodes), counter, queues)

\* add_initial_pages_to_scrape(wikitext), lines 78-96
add_initial_pages_to_scrape(nodes) ==
    InitialPagesLoop(SelectSeq(nodes, LAMBDA node : node.kind \in {"link", "li"}), 0,
                     [continents |-> continents_to_scrape, countries |-> countries_to_scrape])

\* lines 110-112 and 122-124: the cities of a page get its title and its queue
Tagged(list, title, source_type) ==
    [k \in 1 .. Len(list) |-> [list[k] EXCEPT !.source_page = title,
                                               !.source_type = source_type]]

\* the log of the fetches: a third and later fetch of the same page of the
\* same queue is not logged again
Logged(queue, title) ==
    IF Cardinality({n \in 1 .. Len(fetched) : fetched[n] = <<queue, title>>}) >= 2
    THEN fetched
    ELSE Append(fetched, <<queue, title>>)

RunFrame == <<alignVars, graphVars, publisherVars, dashVars, wikitext, mode, frame, line_no, scrapePc, wiki>>

\* lines 103-104
RunStart ==
    /\ runPc = "start"
    /\ LET initial_wiki_text == get_wiki_text(RootTitle)
       IN  IF initial_wiki_text.raised
           THEN /\ runPc' = "raised"
                /\ UNCHANGED <<continents_to_scrape, countries_to_scrape>>
           ELSE LET queues == add_initial_pages_to_scrape(initial_wiki_text.value)
                IN  /\ runPc' = "continents"
                    /\ continents_to_scrape' = queues.continents
                    /\ countries_to_scrape' = queues.countries
    /\ fetched' = Logged("root", RootTitle)
    /\ UNCHANGED <<RunFrame, self_cities>>

\* a mutant: the cities of a continent page are tagged as those of a country page
RunContinentTagsCountry(entry) ==
    /\ runPc = "continents"
    /\ entry \in continents_to_scrape
    /\ continents_to_scrape' = continents_to_scrape \ {entry}
    /\ fetched' = Logged("continent", entry[1])
    /\ LET page == get_wiki_text(entry[1])
           out == scrape_continent(page.value, countries_to_scrape)
       IN  IF page.raised
           THEN runPc' = "raised" /\ UNCHANGED <<countries_to_scrape, self_cities>>
           ELSE /\ countries_to_scrape' = out.countries_to_scrape
                /\ runPc' = IF out.raised THEN "raised" ELSE "continents"
                /\ self_cities' = self_cities \o Tagged(out.cities, entry[1], "country")
    /\ UNCHANGED RunFrame

\* one pass of the first loop, lines 106-113, for the entry that pop() gives
RunContinent(entry) ==
    /\ runPc = "continents"
    /\ entry \in continents_to_scrape
    /\ continents_to_scrape' = continents_to_scrape \ {entry}
    /\ fetched' = Logged("continent", entry[1])
    /\ LET page == get_wiki_text(entry[1])
           out == scrape_continent(page.value, countries_to_scrape)
       IN  IF page.raised
           THEN runPc' = "raised" /\ UNCHANGED <<countries_to_scrape, self_cities>>
           ELSE /\ countries_to_scrape' = out.countries_to_scrape
                /\ runPc' = IF out.raised THEN "raised" ELSE "continents"
                /\ self_cities' = self_cities \o Tagged(out.cities, entry[1], "continent")
    /\ UNCHANGED RunFrame

\* the first loop ends, line 106
RunContinentsDone ==
    /\ runPc = "continents"
    /\ continents_to_scrape = {}
    /\ runPc' = "countries"
    /\ UNCHANGED <<RunFrame, continents_to_scrape, countries_to_scrape, self_cities, fetched>>

\* one pass of the second loop, lines 115-125, for the entry that pop() gives
RunCountry(entry) ==
    /\ runPc = "countries"
    /\ entry \in countries_to_scrape
    /\ LET title == entry[1]
           shown_text == entry[2]
           country_name == get_country_name(IF shown_text # None THEN shown_text ELSE title)
           page == get_wiki_text(title)
           queue == countries_to_scrape \ {entry}
           out == scrape_country(page.value, country_name.value, queue)
       IN  IF country_name.raised
           THEN /\ runPc' = "raised"
                /\ countries_to_scrape' = queue
                /\ UNCHANGED <<self_cities, fetched>>
           ELSE IF country_name.value = "Metro Manila"
           THEN /\ countries_to_scrape' = queue
                /\ UNCHANGED <<runPc, self_cities, fetched>>
           ELSE /\ fetched' = Logged("country", title)
                /\ IF page.raised
                   THEN /\ runPc' = "raised"
                        /\ countries_to_scrape' = queue
                        /\ UNCHANGED self_cities
                   ELSE /\ countries_to_scrape' = out.countries_to_scrape
                        /\ runPc' = IF out.raised THEN "raised" ELSE "countries"
                        /\ self_cities' = self_cities \o Tagged(out.cities, title, "country")
    /\ UNCHANGED <<RunFrame, continents_to_scrape>>

\* the second loop ends and run() returns, line 115
RunReturn ==
    /\ runPc = "countries"
    /\ countries_to_scrape = {}
    /\ runPc' = "done"
    /\ UNCHANGED <<RunFrame, continents_to_scrape, countries_to_scrape, self_cities, fetched>>

PopContinent == \E entry \in continents_to_scrape : RunContinent(entry)

PopCountry == \E entry \in countries_to_scrape : RunCountry(entry)

\* the state after Scraper(), lines 47-56, in front of some wiki
InitRun ==
    /\ wiki \in Wikis
    /\ runPc = "start"
    /\ continents_to_scrape = {}
    /\ countries_to_scrape = {}
    /\ self_cities = <<>>
    /\ fetched = <<>>
    /\ wikitext = <<>>
    /\ mode = "country"
    /\ frame = <<>>
    /\ line_no = 0
    /\ scrapePc = "idle"
    /\ InitStore
    /\ AlignIdle
    /\ PublisherIdle
    /\ DashIdle

NextRun ==
    \/ RunStart
    \/ PopContinent
    \/ RunContinentsDone
    \/ PopCountry
    \/ RunReturn

SpecRun == InitRun /\ [][NextRun]_vars

\* a wiki in which every listed page exists, has a country name and scrapes
\* without an exception.  No page names itself: a pass that pops a page and
\* queues it again leaves the state as it was, and a behaviour cannot tell
\* that from stopping; pages that name each other make the loop visible.
Healthy(w) ==
    /\ DOMAIN w = {RootTitle, EuropeList, PolandList, PhilippinesList, ManilaList}
    /\ \A n \in 1 .. Len(w[RootTitle]) :
          w[RootTitle][n].kind = "link" => w[RootTitle][n].title # PolishList
    /\ w[PhilippinesList] # <<Heading("Luzon"), RefCite>>
    /\ w[PolandList] # <<MainPoland, Heading("Lesser Poland")>>

InitRunHealthy == InitRun /\ Healthy(wiki)

\* the loops of run() go on while there is an entry to pop
SpecRunFair == InitRunHealthy /\ [][NextRun]_vars /\ WF_vars(NextRun)

(***************************************************************************)
(* Claims about run().                                                     *)
(***************************************************************************)
\* C12: a failure to fetch or parse the page of one queue entry does not
\* abort run(): the run never ends in an exception, the entry is skipped and
\* the other entries are still processed.
C12_FailureDoesNotAbortRun == runPc # "raised"

\* C13: run() terminates for every set of listing pages, also when pages
\* name each other or themselves through main templates: eventually both
\* queues are empty and stay empty.
C13_RunTerminates ==
    <>[](continents_to_scrape = {} /\ countries_to_scrape = {})

\* C14: within one run each page title is fetched and scraped at most once.
C14_EachTitleFetchedOnce ==
    \A m, n \in 1 .. Len(fetched) : fetched[m][2] = fetched[n][2] => m = n

\* the city as the page scraper returned it, before run() tagged it
Untagged(city) == [city EXCEPT !.source_page = None, !.source_type = "country"]

CountryNames == {"Poland", "Philippines"}

\* the cities that the page of that title gives when scraped in that mode
ScrapedFrom(title, source_type) ==
    IF title \notin DOMAIN wiki THEN {}
    ELSE IF source_type = "continent"
    THEN Range(scrape_continent(wiki[title], {}).cities)
    ELSE IF source_type = "country"
    THEN UNION {Range(scrape_country(wiki[title], country, {}).cities) : country \in CountryNames}
    ELSE {}

\* C15: the continents queue is drained before any entry of the countries
\* queue is scraped, and every collected city carries the title of the page
\* it came from and the kind of the queue that page was popped from.
C15_ContinentsFirstAndCitiesTagged ==
    /\ \A m, n \in 1 .. Len(fetched) :
          (fetched[m][1] = "country" /\ fetched[n][1] = "continent") => n < m
    /\ (\E n \in 1 .. Len(fetched) : fetched[n][1] = "country") => continents_to_scrape = {}
    /\ \A k \in 1 .. Len(self_cities) :
          /\ <<self_cities[k].source_type, self_cities[k].source_page>> \in Range(fetched)
          /\ Untagged(self_cities[k])
                \in ScrapedFrom(self_cities[k].source_page, self_cities[k].source_type)

C15_Witness ==
    /\ runPc = "done"
    /\ \E k \in 1 .. Len(self_cities) : self_cities[k].source_type = "continent"
    /\ \E k \in 1 .. Len(self_cities) : self_cities[k].source_type = "country"

(***************************************************************************)
(* The reference parser on its own: the named-reference table of a page    *)
(* of ref tags is built, then every tag of the page is parsed with it.     *)
(***************************************************************************)
\* ref tags on a page
MaxTags == 3

CiteY == Template("cite web", <<Param("url", "http://y"), Param("publisher", "P")>>)

Tags ==
    { RefCite,
      RefTag(<<Attribute("name", "x")>>, <<CiteXT>>),
      RefTag(<<Attribute("name", "x")>>, <<>>),
      RefTag(<<Attribute("name", "y")>>, <<>>),
      RefTag(<<Attribute("name", "y"), Attribute("group", "note")>>, <<CiteY>>),
      RefTag(<<Attribute("name", "y")>>, <<CiteY, Text(".")>>),
      RefTag(<<Attribute("follow", "x")>>, <<CiteY>>),
      RefTag(<<>>, <<ExternalLink("http://y")>>) }

RefsFrame == <<alignVars, graphVars, publisherVars, dashVars, continents_to_scrape, countries_to_scrape,
               self_cities, wikitext, mode, wiki, runPc, fetched>>

\* reference_dict = self.build_named_reference_dictionary(wikitext), lines 133 and 194
RefsBuild ==
    /\ scrapePc = "refs"
    /\ LET reference_dict == build_named_reference_dictionary(wikitext)
       IN  IF reference_dict.raised
           THEN /\ scrapePc' = "raised"
                /\ frame' = [reference_dict |-> EmptyDict, parsed |-> <<>>]
           ELSE /\ scrapePc' = "parsing"
                /\ frame' = [reference_dict |-> reference_dict.value, parsed |-> <<>>]
    /\ UNCHANGED <<RefsFrame, line_no>>

\* self.parse_reference(line, reference_dict) on the next tag, lines 172, 175, 237 and 241
RefsParse ==
    /\ scrapePc = "parsing"
    /\ line_no < Len(wikitext)
    /\ frame' = [frame EXCEPT !.parsed = Append(@, parse_reference(wikitext[line_no + 1],
                                                                   frame.reference_dict))]
    /\ line_no' = line_no + 1
    /\ UNCHANGED <<RefsFrame, scrapePc>>

InitRefs ==
    /\ wikitext \in SeqsUpTo(Tags, MaxTags)
    /\ scrapePc = "refs"
    /\ frame = <<>>
    /\ line_no = 0
    /\ mode = "country"
    /\ continents_to_scrape = {}
    /\ countries_to_scrape = {}
    /\ self_cities = <<>>
    /\ wiki = <<>>
    /\ runPc = "done"
    /\ fetched = <<>>
    /\ InitStore
    /\ AlignIdle
    /\ PublisherIdle
    /\ DashIdle

NextRefs == RefsBuild \/ RefsParse

SpecRefs == InitRefs /\ [][NextRefs]_vars

\* the name attribute of a tag, Unbound when it has none
NameOf(tag) == NameAfter(tag.attributes, Unbound)

\* the tags of the page that define a name: they carry it and have content
DefinitionsOf(name) ==
    {m \in 1 .. Len(wikitext) : NameOf(wikitext[m]) = name /\ Len(wikitext[m].contents) > 0}

\* a definition the table takes: no group attribute and one content node
Listed(tag) == IsGood(tag.attributes) /\ Len(tag.contents) = 1

\* C16: a named citation whose name is defined once on the page resolves, at
\* every occurrence, to the Reference built from that definition; a citation
\* whose name is not in the table (never defined, or defined only by tags
\* with a group attribute or with more than one content node) resolves to
\* None without raising.
C16_NamedCitationResolves ==
    scrapePc = "parsing" =>
        \A n \in 1 .. Len(frame.parsed) :
            LET name == NameOf(wikitext[n])
                defs == DefinitionsOf(name)
            IN  name # Unbound =>
                  /\ (\E m \in defs : defs = {m} /\ Listed(wikitext[m])) =>
                        frame.parsed[n] = get_reference(wikitext[CHOOSE m \in defs : TRUE].contents)
                  /\ (\A m \in defs : ~Listed(wikitext[m])) =>
                        frame.parsed[n] = Returned(NoneObj)

(***************************************************************************)
(* Claims about the loop of the page scraper.                              *)
(***************************************************************************)
\* the loop has consumed at least one node
Scanning == scrapePc \in {"loop", "returned", "raised"} /\ line_no > 0

\* the node the loop consumed last
LastLine == Lines[line_no].node

\* C17: in both scrape modes a citation that parse_reference resolves to
\* None is skipped: no None is ever appended to the ref list of a City or to
\* the refs list of a TwinCitiesAgreement.
C17_NoNoneInRefLists ==
    Scanning =>
        \A c \in 1 .. Len(frame.heap) :
            /\ \A k \in 1 .. Len(frame.heap[c].ref) : frame.heap[c].ref[k] # NoneObj
            /\ \A t \in 1 .. Len(frame.heap[c].twin_cities) :
                  \A k \in 1 .. Len(frame.heap[c].twin_cities[t].refs) :
                      frame.heap[c].twin_cities[t].refs[k] # NoneObj

\* C19: right after the page scraper has processed a heading node the
\* list-depth state is back at its initial value: count = 0, last_count = -1,
\* no city and no twin open.
C19_HeadingResetsDepthState ==
    (Scanning /\ scrapePc # "raised" /\ LastLine.kind = "heading") =>
        /\ frame.count = 0
        /\ frame.last_count = -1
        /\ frame.city = NoCity
        /\ frame.twin_city = NoTwin

UnderHeading == IF mode = "country" THEN frame.header # None ELSE frame.country # None

AtCityDepth == frame.count = 0 \/ frame.last_count = frame.count

\* the step appended a new City to cities and made it the open city
Opened ==
    /\ Len(frame'.heap) = Len(frame.heap) + 1
    /\ frame'.cities = Append(frame.cities, Len(frame'.heap))
    /\ frame'.city = Len(frame'.heap)

\* the step appended a twin to the city that was open
TwinAppended ==
    /\ frame.city # NoCity
    /\ frame'.city = frame.city
    /\ Len(frame'.heap) = Len(frame.heap)
    /\ Len(frame'.heap[frame.city].twin_cities) = Len(frame.heap[frame.city].twin_cities) + 1

\* C20: under a heading a link opens a new City exactly when
\* count = 0 or last_count = count, every other link appends a twin to the
\* open city, and opening a city sets count to 0 and last_count to -1.
C20_LinkOpensCityByDepth ==
    [][(ScrapeLink /\ UnderHeading) =>
          /\ AtCityDepth <=> Opened
          /\ ~AtCityDepth => TwinAppended
          /\ Opened => (frame'.count = 0 /\ frame'.last_count = -1)]_vars

(***************************************************************************)
(* Claims about where the scan of a page ends and what it leaves behind.   *)
(***************************************************************************)
\* the nodes of a page up to and including the first heading titled
\* References; the whole page where there is none
RECURSIVE UpToReferences(_)
UpToReferences(nodes) ==
    IF nodes = <<>> THEN <<>>
    ELSE IF Head(nodes) = Heading("References") THEN <<Head(nodes)>>
    ELSE <<Head(nodes)>> \o UpToReferences(Tail(nodes))

HasReferences(nodes) == \E n \in 1 .. Len(nodes) : nodes[n] = Heading("References")

CountryParam == IF mode = "country" THEN "Poland" ELSE None

\* how the call on the page ended: raised or not, the list, the queue
Ended == Outcome(frame)

\* the step put a new City at the end of cities, made from the link at hand
CityFromLine ==
    /\ Line.node.kind = "link"
    /\ Opened
    /\ frame'.heap[frame'.city].wiki_text = Line.node.title
    /\ \A c \in 1 .. Len(frame.heap) : frame'.heap[c].wiki_text = frame.heap[c].wiki_text

\* cities grows only at its end, by the city of the link at hand
CitiesInDocumentOrder ==
    [][scrapePc = "loop" => (frame'.cities = frame.cities \/ CityFromLine)]_vars

\* C21 as stated: in both modes the scan stops at the first heading titled
\* References: the call ends as the call on the page cut after that heading
\* ends (no city, twin, reference or enqueued page comes from a later node),
\* and the cities come in document order.
C21_NothingFromNodesAfterReferences ==
    /\ [](ScrapeEnded =>
            Ended = Outcome(ScrapeCallOf(mode, UpToReferences(wikitext), CountryParam, {})))
    /\ CitiesInDocumentOrder

\* C21 amended: the loop stops at the first heading titled References: the
\* call ends as the loop over the nodes up to that heading ends under the
\* named-reference table of the whole page (it raises where building that
\* table raises), and the cities come in document order.
C21_LoopStopsAtReferences ==
    /\ [](ScrapeEnded =>
            LET reference_dict == build_named_reference_dictionary(wikitext)
                nodes == UpToReferences(wikitext)
            IN  IF reference_dict.raised THEN Ended.raised
                ELSE Ended = Outcome(Loop(mode, FrameAtCall(reference_dict.value, CountryParam, {}),
                                          nodes, Filter(nodes), 1)))
    /\ CitiesInDocumentOrder

\* a page with an entry and a main template after the References heading
\* was scraped
C21_Witness ==
    /\ ScrapeReturned
    /\ HasReferences(wikitext)
    /\ Len(UpToReferences(wikitext)) + 4 < Len(wikitext)
    /\ \E n \in 1 .. Len(wikitext) : wikitext[n] = MainPoland
    /\ Len(Result) = 1
    /\ countries_to_scrape = {}

\* C22: for every sequence of heading, link, list-item, citation and
\* template nodes scrape_country and scrape_continent return a list of
\* cities and never raise, also where a citation stands under a heading
\* before any city link, or after a list item before any twin link.
C22_ScrapeNeverRaises == scrapePc # "raised"

\* C23: a main template adds its first parameter to the countries queue
\* only when it is met in continent mode; scraping a page in country mode
\* leaves both crawl queues as they were (empty, here).
C23_MainEnqueuesInContinentModeOnly ==
    /\ (Scanning /\ scrapePc # "raised" /\ mode = "continent" /\ LastLine = MainPoland) =>
            <<PolandList, None>> \in countries_to_scrape
    /\ mode = "country" => (countries_to_scrape = {} /\ continents_to_scrape = {})

\* C25: every TwinCitiesAgreement made during a page scrape belongs to a
\* City of the returned list; none hangs on a City that is dropped, also not
\* the twins listed under a heading before any city link, which go to the
\* placeholder City.
C25_TwinsBelongToReturnedCities ==
    (Scanning /\ scrapePc # "raised") =>
        \A c \in 1 .. Len(frame.heap) :
            frame.heap[c].twin_cities # <<>> => \E k \in 1 .. Len(frame.cities) : frame.cities[k] = c

\* C26: during a page scrape a citation is attached only to the open city
\* or to a twin that belongs to the open city, never to a twin of a city
\* opened earlier: a citation step changes no other City than the open one.
C26_CitationGoesToOpenCity ==
    [][(ScrapeRef /\ scrapePc' # "raised") =>
          \A c \in 1 .. Len(frame.heap) : frame'.heap[c] # frame.heap[c] => c = frame.city]_vars

(***************************************************************************)
(* Publisher.update, src/src/wikidata/publish.py:135-176.  remote holds    *)
(* what the knowledge base answers: ids, the identifiers of each page url; *)
(* accepts, whether a write to an item goes through; label, the label of   *)
(* each item.  An absent key of data is None.  writes lists the items     *)
(* try_write was called on, in the order of the calls.                     *)
(***************************************************************************)
SourceUrl == "https://en.wikipedia.org/wiki/Radom"
TwinUrl == "https://en.wikipedia.org/wiki/Kielce"

\* source_id.split("/")[-1], line 163
LastSegment(str) ==
    CASE str = "http://www.wikidata.org/entity/Q1" -> "Q1"
      [] OTHER -> str

Requests ==
    {[sourceId |-> sourceId, sourceUrl |-> SourceUrl, targetId |-> None,
      twin |-> [url |-> TwinUrl, name |-> "Kielce", references |-> <<>>]] :
        sourceId \in {None, "http://www.wikidata.org/entity/Q1", "Q1"}}

Remotes ==
    {[ids |-> [u \in {SourceUrl, TwinUrl} |-> IF u = SourceUrl THEN source ELSE twin],
      accepts |-> [q \in {"Q1", "Q2"} |-> IF q = "Q1" THEN a1 ELSE a2],
      label |-> [q \in {"Q1", "Q2"} |-> IF q = "Q1" THEN "Radom" ELSE "Kielce"]] :
        source \in {<<>>, <<"Q1">>, <<"Q1", "Q2">>},
        twin \in {<<>>, <<"Q2">>, <<"Q2", "Q1">>},
        a1 \in BOOLEAN, a2 \in BOOLEAN}

\* extract_id_from_url(url), src/src/wikidata/queries.py:133-166
extract_id_from_url(url) == remote.ids[url]

Failed(error) == [raised |-> TRUE, error |-> error, value |-> <<>>]
Succeeded(v) == [raised |-> FALSE, error |-> "", value |-> v]

\* a mutant: the first identifier is taken without the length test
get_proper_id_unchecked(url) ==
    LET ids == extract_id_from_url(url)
    IN  IF Len(ids) = 0 THEN Failed("IndexError") ELSE Succeeded(ids[1])

\* get_proper_id(url), lines 154-158
get_proper_id(url) ==
    LET ids == extract_id_from_url(url)
    IN  IF Len(ids) = 0 THEN Failed("ID in Wikidata not found") ELSE Succeeded(ids[1])

\* wdi_helpers.try_write(...), lines 143-149: whether the knowledge base
\* takes the write on the item
TryWrite(item_id) == remote.accepts[item_id]

\* result.wd_error_msg["error"]["info"], line 151: what the knowledge base
\* says when it rejects the write on the item
wd_error_msg(item_id) ==
    CASE item_id = "Q1" -> "edit conflict on Q1"
      [] item_id = "Q2" -> "edit conflict on Q2"
      [] OTHER -> "edit conflict on Q3"

\* a mutant: a rejected write is not raised
_update_swallows(item_id) == Succeeded(item_id)

\* _update(item, data), lines 135-152: one try_write on the item; a rejected
\* write comes back as an exception object and is raised with its message
_update(item_id) ==
    IF TryWrite(item_id) THEN Succeeded(item_id) ELSE Failed(wd_error_msg(item_id))

Has(d, key) == key \in DOMAIN d

\* the dict without the keys popped from it
Without(d, keys) == [k \in DOMAIN d \ keys |-> d[k]]

\* d[key] = value
SetKey(d, key, value) == (key :> value) @@ d

PublishFrame == <<alignVars, graphVars, scraperVars, dashVars, two_sided, remote>>

\* update raised, or returned True: the call is over
Ends(result) ==
    /\ pubResult' = result
    /\ pubCall' = [pc |-> "done"]

\* update(data, two_sided), lines 161-168: the two identifiers are looked
\* up and data["targetId"] is set; data["twin"]["url"] raises KeyError on a
\* twin without url
UpdateLookup ==
    /\ pubCall.pc = "start"
    /\ LET source_id == IF Has(pubData, "sourceId") /\ pubData.sourceId # None
                        THEN Succeeded(LastSegment(pubData.sourceId))
                        ELSE get_proper_id(pubData.sourceUrl)
           target_id == IF Has(pubData.twin, "url") THEN get_proper_id(pubData.twin.url)
                        ELSE Failed("'url'")
       IN  IF source_id.raised
           THEN Ends(source_id.error) /\ UNCHANGED pubData
           ELSE IF target_id.raised
           THEN Ends(target_id.error) /\ UNCHANGED pubData
           ELSE /\ pubData' = SetKey(pubData, "targetId", target_id.value)
                /\ pubCall' = [pc |-> "source", source_id |-> source_id.value,
                               target_id |-> target_id.value]
                /\ UNCHANGED pubResult
    /\ UNCHANGED <<PublishFrame, writes>>

\* update, lines 169-173: the source item is loaded and written; when
\* two_sided, data is turned round for the write on the target item
UpdateSource ==
    /\ pubCall.pc = "source"
    /\ writes' = Append(writes, pubCall.source_id)
    /\ LET written == _update(pubCall.source_id)
       IN  IF written.raised
           THEN Ends(written.error) /\ UNCHANGED pubData
           ELSE IF ~two_sided
           THEN Ends("True") /\ UNCHANGED pubData
           ELSE /\ pubData' = SetKey(SetKey(pubData, "targetId", pubCall.source_id), "twin",
                                     SetKey(pubData.twin, "name", remote.label[pubCall.source_id]))
                /\ pubCall' = [pubCall EXCEPT !.pc = "target"]
                /\ UNCHANGED pubResult
    /\ UNCHANGED PublishFrame

\* update, lines 174-176: the target item is loaded and written
UpdateTarget ==
    /\ pubCall.pc = "target"
    /\ writes' = Append(writes, pubCall.target_id)
    /\ LET written == _update(pubCall.target_id)
       IN  IF written.raised THEN Ends(written.error) ELSE Ends("True")
    /\ UNCHANGED <<PublishFrame, pubData>>

\* update(data, two_sided), lines 160-176: the call waits on the knowledge
\* base for the lookups, for the first write and for the second write
update ==
    \/ UpdateLookup
    \/ UpdateSource
    \/ UpdateTarget

InitPublish ==
    /\ pubData \in Requests
    /\ two_sided \in BOOLEAN
    /\ remote \in Remotes
    /\ writes = <<>>
    /\ pubResult = "none"
    /\ pubCall = [pc |-> "start"]
    /\ InitStore
    /\ AlignIdle
    /\ ScraperIdle
    /\ DashIdle

NextPublish == update

SpecPublish == InitPublish /\ [][NextPublish]_vars

\* the lookups of this request that find no identifier
LookupFails ==
    \/ remote.ids[TwinUrl] = <<>>
    \/ pubData.sourceId = None /\ remote.ids[SourceUrl] = <<>>

\* C18: update raises the explicit error "ID in Wikidata not found" when the
\* identifier lookup for the twin URL (or, without a sourceId, for the source
\* URL) returns no identifiers, and then no write is made on either item.
C18_NotFoundRaisedBeforeAnyWrite ==
    (pubResult # "none" /\ LookupFails) =>
        (pubResult = "ID in Wikidata not found" /\ writes = <<>>)

C18_Witness ==
    /\ pubResult = "ID in Wikidata not found"
    /\ pubData.sourceId # None
    /\ remote.ids[TwinUrl] = <<>>
    /\ remote.accepts["Q1"]

\* the items one request is to write, in order: the source item, then, when
\* two_sided, the target item
Planned ==
    LET source_id == IF pubData.sourceId # None THEN LastSegment(pubData.sourceId)
                     ELSE remote.ids[SourceUrl][1]
    IN  IF two_sided THEN <<source_id, remote.ids[TwinUrl][1]>> ELSE <<source_id>>

\* the place of the first planned write the knowledge base rejects, or one
\* past the end when it takes them all
RECURSIVE FirstRejected(_, _)
FirstRejected(items, n) ==
    IF n > Len(items) \/ ~remote.accepts[items[n]] THEN n
    ELSE FirstRejected(items, n + 1)

\* C24: for one update request each write is attempted at most once, the
\* source item first and then, when two_sided, the target item; a rejected
\* write raises with the message of the knowledge base, is not tried again,
\* and no later write of the request is attempted.
C24_WritesInOrderNoRetry ==
    (pubResult # "none" /\ ~LookupFails) =>
        LET n == FirstRejected(Planned, 1)
        IN  IF n > Len(Planned)
            THEN writes = Planned /\ pubResult = "True"
            ELSE writes = SubSeq(Planned, 1, n) /\ pubResult = wd_error_msg(Planned[n])

\* a two-sided request whose first write was rejected while the second
\* would have been taken
C24_Witness ==
    /\ pubResult = wd_error_msg("Q1")
    /\ two_sided
    /\ writes = <<"Q1">>
    /\ remote.accepts["Q2"]

(***************************************************************************)
(* The dashboard, src/src/app.py.  A dict is a function from its keys; a   *)
(* row of the query result has the keys the query bound for it.  Strings   *)
(* are atoms, so the order of strings is tabulated.                        *)
(***************************************************************************)
Q2 == "http://www.wikidata.org/entity/Q2"
Q3 == "http://www.wikidata.org/entity/Q3"
Q4 == "http://www.wikidata.org/entity/Q4"

\* the place of a string in the order of Python's str
Rank(str) ==
    CASE str = "" -> 0
      [] str = "Bonn" -> 1
      [] str = "Celle" -> 2
      [] str = "Q4" -> 3
      [] str = Q2 -> 4
      [] str = Q3 -> 5
      [] str = Q4 -> 6
      [] OTHER -> 7

\* sorted(list, key=...), lines 105, 118 and 766: a stable sort; keys[n] is
\* the key of list[n]
RECURSIVE InsertSorted(_, _)
InsertSorted(pairs, pair) ==
    IF pairs = <<>> THEN <<pair>>
    ELSE IF Rank(pairs[Len(pairs)][1]) <= Rank(pair[1]) THEN Append(pairs, pair)
    ELSE Append(InsertSorted(SubSeq(pairs, 1, Len(pairs) - 1), pair), pairs[Len(pairs)])

RECURSIVE SortedPairs(_)
SortedPairs(pairs) ==
    IF pairs = <<>> THEN <<>>
    ELSE InsertSorted(SortedPairs(SubSeq(pairs, 1, Len(pairs) - 1)), pairs[Len(pairs)])

sorted(list, keys) ==
    LET pairs == SortedPairs([n \in 1 .. Len(list) |-> <<keys[n], list[n]>>])
    IN  [n \in 1 .. Len(list) |-> pairs[n][2]]

\* urllib.parse.unquote(url), line 71
unquote(url) ==
    CASE url = "%43" -> "C"
      [] OTHER -> url

\* the reference dict made of the reference keys of a row, lines 80-89 and 95-104
RowReference(d) ==
    [url |-> d.referenceUrl,
     name |-> IF Has(d, "referenceName") THEN d.referenceName ELSE None,
     publisher |-> IF Has(d, "referencePublisher") THEN d.referencePublisher ELSE None]

ReferenceKeys == {"referenceUrl", "referenceName", "referencePublisher"}

\* lines 69-71: the keys of the row renamed; pop("targetLabel") raises
\* KeyError on a row without label
Renamed(row) ==
    ("id" :> (IF Has(row, "targetId") THEN row.targetId ELSE ""))
        @@ ("url" :> unquote(row.targetUrl))
        @@ ("name" :> row.targetLabel)
        @@ Without(row, {"targetId", "targetUrl", "targetLabel"})

\* lines 73-77: i > 0 and raw[i]["id"] == raw[i - 1]["id"] and "referenceUrl"
\* in raw[i]; raw[i - 1] has no key "id" when that row was skipped
SameTargetAsRowBefore(row, previous, n) ==
    IF n = 1 THEN Returned(FALSE)
    ELSE IF ~ Has(previous, "id") THEN Raised
    ELSE IF row.id # previous.id THEN Returned(FALSE)
    ELSE Returned(Has(row, "referenceUrl"))

\* the loop of lines 67-104 from row n on: previous is raw[n - 1] as the
\* loop left it, out is data_wikidata so far
RECURSIVE LoadLoop(_, _, _, _)
LoadLoop(rows, n, previous, out) ==
    IF n > Len(rows) THEN Returned(out)
    ELSE IF ~ Has(rows[n], "targetUrl") THEN LoadLoop(rows, n + 1, rows[n], out)
    ELSE IF ~ Has(rows[n], "targetLabel") THEN Raised
    ELSE LET row == Renamed(rows[n])
             same == SameTargetAsRowBefore(row, previous, n)
             last == Len(out)
         IN  IF same.raised THEN Raised
             ELSE IF same.value
             THEN LoadLoop(rows, n + 1, Without(row, ReferenceKeys),
                           [out EXCEPT ![last].references = Append(@, RowReference(row))])
             ELSE LoadLoop(rows, n + 1, row,
                           Append(out,
                                  IF Has(row, "referenceUrl")
                                  THEN ("references" :> <<RowReference(row)>>)
                                           @@ Without(row, ReferenceKeys)
                                  ELSE ("references" :> <<>>) @@ row))

\* load_twins_wikidata(city_url), lines 61-106, on the rows the query gives
load_twins_wikidata(rows) ==
    LET loaded == LoadLoop(rows, 1, <<>>, <<>>)
    IN  IF loaded.raised THEN Raised
        ELSE Returned(sorted(loaded.value, [n \in 1 .. Len(loaded.value) |-> loaded.value[n].id]))

\* get_id_by_url(url), lines 52-58
get_id_by_url(url) ==
    IF url = None \/ url = "" THEN ""
    ELSE LET ids == extract_id_from_url(url)
         IN  IF Len(ids) = 0 THEN ""
             ELSE CASE ids[Len(ids)] = "Q2" -> Q2
                    [] ids[Len(ids)] = "Q3" -> Q3
                    [] OTHER -> Q4

\* load_twins_wikipedia(city_url), lines 109-118
load_twins_wikipedia(city_url) ==
    LET twins == get_twins(graph, city_url)
        with_id == [n \in 1 .. Len(twins) |-> ("id" :> get_id_by_url(twins[n].url)) @@ twins[n]]
    IN  sorted(with_id, [n \in 1 .. Len(with_id) |-> with_id[n].id])

\* align(data_wikidata, data_wikipedia, prop), lines 121-149, as one call
RECURSIVE AlignFrom(_, _, _, _, _, _)
AlignFrom(wd, wp, p, a, b, out) ==
    IF a < Len(wd) /\ b < Len(wp)
    THEN IF wd[a + 1][p] # wp[b + 1][p]
         THEN IF Rank(wd[a + 1][p]) < Rank(wp[b + 1][p])
              THEN AlignFrom(wd, wp, p, a + 1, b, Append(out, [wikidata |-> wd[a + 1]]))
              ELSE AlignFrom(wd, wp, p, a, b + 1, Append(out, [wikipedia |-> wp[b + 1]]))
         ELSE AlignFrom(wd, wp, p, a + 1, b + 1,
                        Append(out, [wikidata |-> wd[a + 1], wikipedia |-> wp[b + 1]]))
    ELSE IF a < Len(wd)
    THEN AlignFrom(wd, wp, p, a + 1, b, Append(out, [wikidata |-> wd[a + 1]]))
    ELSE IF b < Len(wp)
    THEN AlignFrom(wd, wp, p, a, b + 1, Append(out, [wikipedia |-> wp[b + 1]]))
    ELSE out

align(wd, wp, p) == AlignFrom(wd, wp, p, 0, 0, <<>>)

(***************************************************************************)
(* The callbacks of the dashboard, on the globals twins_details and        *)
(* twins_names.  The city chosen is A; the graph holds what the scraper    *)
(* found for A, the rows are what the knowledge base holds for A.          *)
(***************************************************************************)
\* rows of one query result
MaxRows == 3

Q1 == "http://www.wikidata.org/entity/Q1"

RowBonn == [sourceId |-> Q1, targetId |-> Q2, targetUrl |-> "B", targetLabel |-> "Bonn"]

RowBonnRef ==
    [sourceId |-> Q1, targetId |-> Q2, targetUrl |-> "B", targetLabel |-> "Bonn",
     referenceUrl |-> "http://x", referenceName |-> "T"]

RowCelleRef ==
    [sourceId |-> Q1, targetId |-> Q3, targetUrl |-> "%43", targetLabel |-> "Celle",
     referenceUrl |-> "http://y"]

\* a twin without a page in the English Wikipedia: no targetUrl
RowNoPage == [sourceId |-> Q1, targetId |-> Q4, targetLabel |-> "Q4"]

Rows == {RowBonn, RowBonnRef, RowCelleRef, RowNoPage}

\* what the scraper found for A
DashCityLists ==
    { <<MkCity("A", <<>>, <<MkTwin("B", <<>>), MkTwin("C", <<>>)>>)>>,
      <<MkCity("A", <<>>, <<MkTwin("C", <<>>), MkTwin("B", <<>>)>>)>>,
      <<MkCity("A", <<>>, <<MkTwin("C", <<>>)>>)>> }

DashItems == {"Q1", "Q2", "Q3"}

\* the identifiers the knowledge base has for the pages (Celle may have
\* none), the writes it takes and the labels of the items
DashRemotes ==
    {[ids |-> [u \in CityUrls |-> CASE u = "A" -> <<"Q1">> [] u = "B" -> <<"Q2">> [] OTHER -> c],
      accepts |-> accepts,
      label |-> [q \in DashItems |->
                    CASE q = "Q1" -> "Aachen" [] q = "Q2" -> "Bonn" [] OTHER -> "Celle"]] :
        c \in {<<>>, <<"Q3">>}, accepts \in [DashItems -> BOOLEAN]}

\* x.get("wikipedia", x.get("wikidata", {})).get("name", ""), line 766
NameKey(x) ==
    LET side == IF HasWikipedia(x) THEN x.wikipedia
                ELSE IF HasWikidata(x) THEN x.wikidata ELSE EmptyDict
    IN  IF Has(side, "name") THEN side.name ELSE ""

\* result.get(side, {}).get("name"), lines 738-739 and 772-773
NameOn(result, side) ==
    IF Has(result, side) /\ Has(result[side], "name") THEN result[side].name ELSE None

\* the loop of lines 733-742 and of lines 769-776 (there without the test)
TableRows(details, on) ==
    LET kept == SelectSeq([n \in 1 .. Len(details) |-> n],
                          LAMBDA n : ~ (on /\ HasWikidata(details[n])))
    IN  [k \in 1 .. Len(kept) |->
            [wikipedia |-> NameOn(details[kept[k]], "wikipedia"),
             wikidata |-> NameOn(details[kept[k]], "wikidata"),
             idx |-> kept[k] - 1]]

\* the entry update_details_refs shows for a table row, lines 566-568
DetailsEntry(row) == twins_details[twins_names[row + 1].idx + 1]

\* update_object of query, lines 485-512, with no reference row selected
UpdateObject(details) ==
    LET with == SelectSeq(twins_details, HasWikidata)
        source_id == IF with = <<>> THEN None ELSE with[1].wikidata.sourceId
    IN  [sourceUrl |-> "A", sourceId |-> source_id,
         twin |-> ("references" :> <<>>)
                     @@ (IF HasWikipedia(details) THEN details.wikipedia ELSE EmptyDict)]

DashFrame == <<graphVars, scraperVars, prop, i, j, data, alignPc, raw>>

\* update_table(n_clicks, city_url), lines 757-777
update_table ==
    /\ dashPc = "start"
    /\ LET wd == load_twins_wikidata(raw)
           wp == load_twins_wikipedia("A")
           aligned == align(wd.value, wp, "id")
           details == sorted(aligned, [n \in 1 .. Len(aligned) |-> NameKey(aligned[n])])
       IN  IF wd.raised
           THEN /\ dashPc' = "raised"
                /\ UNCHANGED <<data_wikidata, data_wikipedia, twins_details, twins_names,
                               hide_switch, selected_rows, shown>>
           ELSE /\ data_wikidata' = wd.value
                /\ data_wikipedia' = wp
                /\ twins_details' = details
                /\ twins_names' = TableRows(details, FALSE)
                /\ hide_switch' = FALSE
                /\ selected_rows' = <<>>
                /\ shown' = NoneObj
                /\ dashPc' = "loaded"
    /\ UNCHANGED <<DashFrame, publisherVars, submitted>>

\* update_table_hide(on), lines 730-743: the switch is flipped
update_table_hide ==
    /\ dashPc = "loaded"
    /\ hide_switch' = ~ hide_switch
    /\ twins_names' = TableRows(twins_details, ~ hide_switch)
    /\ UNCHANGED <<DashFrame, publisherVars, data_wikidata, data_wikipedia, twins_details,
                   selected_rows, shown, submitted, dashPc>>

\* update_details_refs(selected_rows, city_url), lines 562-568, when a row
\* of the table is selected; the rest of the callback lays the entry out
update_details_refs ==
    /\ dashPc = "loaded"
    /\ \E row \in 0 .. Len(twins_names) - 1 :
          /\ selected_rows' = <<row>>
          /\ shown' = DetailsEntry(row)
    /\ UNCHANGED <<DashFrame, publisherVars, data_wikidata, data_wikipedia, twins_details,
                   twins_names, hide_switch, submitted, dashPc>>

\* query(n_clicks, city_url, selected_rows, selected_rows_refs), lines
\* 476-519: details = twins_details[row] (lines 491-492), update_object, and
\* the call publisher.update(update_object) with two_sided left at its
\* default; the call goes on in the steps of update, and what query returns
\* with (True, or the text of the exception) is pubResult; one request is
\* under way at a time
query ==
    /\ dashPc = "loaded"
    /\ selected_rows # <<>>
    /\ pubCall.pc \in {"idle", "done"}
    /\ LET details == twins_details[selected_rows[1] + 1]
       IN  /\ submitted' = details
           /\ pubData' = UpdateObject(details)
    /\ two_sided' = TRUE
    /\ writes' = <<>>
    /\ pubResult' = "none"
    /\ pubCall' = [pc |-> "start"]
    /\ UNCHANGED <<DashFrame, remote, data_wikidata, data_wikipedia, twins_details,
                   twins_names, hide_switch, selected_rows, shown, dashPc>>

InitDash ==
    /\ raw \in SeqsUpTo(Rows, MaxRows)
    /\ remote \in DashRemotes
    /\ \E cities \in DashCityLists :
          LET st == AddCitiesTo([graph |-> <<>>, references |-> EmptyDict,
                                 city_pairs |-> EmptyDict, next |-> 1], cities)
          IN  /\ graph = st.graph
              /\ references = st.references
              /\ city_pairs = st.city_pairs
              /\ nextBNode = st.next
              /\ added = <<cities>>
              /\ contained = <<cities>>
    /\ file = NoFile
    /\ calls = 1
    /\ loads = 0
    /\ fileContained = <<>>
    /\ twins_details = <<>>
    /\ twins_names = <<>>
    /\ hide_switch = FALSE
    /\ selected_rows = <<>>
    /\ shown = NoneObj
    /\ submitted = NoneObj
    /\ dashPc = "start"
    /\ pubData = <<>>
    /\ two_sided = FALSE
    /\ writes = <<>>
    /\ pubResult = "none"
    /\ pubCall = [pc |-> "idle"]
    /\ AlignIdle
    /\ ScraperIdle

NextDash ==
    \/ update_table
    \/ update_table_hide
    \/ update_details_refs
    \/ query
    \/ update

SpecDash == InitDash /\ [][NextDash]_vars

(***************************************************************************)
(* Claims about the dashboard.                                             *)
(***************************************************************************)
\* the rows of the query result that are about one target and carry a reference
RowsWithReference(id) ==
    {n \in 1 .. Len(raw) : raw[n].targetId = id /\ Has(raw[n], "referenceUrl")}

\* C30: load_twins_wikidata returns, whatever the rows of the query result
\* and their order, at most one record per target id, and the references of
\* a record are as many as the rows of that target that carry a referenceUrl.
C30_OneRecordPerTargetId ==
    dashPc # "start" =>
        /\ dashPc = "loaded"
        /\ \A a, b \in 1 .. Len(data_wikidata) :
              data_wikidata[a].id = data_wikidata[b].id => a = b
        /\ \A a \in 1 .. Len(data_wikidata) :
              Len(data_wikidata[a].references)
                  = Cardinality(RowsWithReference(data_wikidata[a].id))

\* C29: with the filter on or off, the entry query submits for the selected
\* row of the table is the entry update_details_refs shows for that row,
\* twins_details[twins_names[row]["idx"]].
C29_QuerySubmitsDisplayedEntry ==
    [][query /\ selected_rows[1] < Len(twins_names)
           => submitted' = DetailsEntry(selected_rows[1])]_vars

=============================================================================
